---------------------------- MODULE Spec2Model ----------------------------
(***************************************************************************)
(* A model of rshttp2's HPACK layer: the dynamic table                     *)
(* (src/hpack/dynamic_table.rs), the header-field decoder                  *)
(* (src/hpack/mod.rs) and the HEADERS frame parser that drives it          *)
(* (src/frames.rs).                                                        *)
(*                                                                         *)
(* Byte strings are sequences of numbers in 0..255.  An Option<T> is the   *)
(* empty sequence (None) or a one-element sequence (Some).  A Rust panic   *)
(* (assert!, unwrap() on None, unreachable!()) is modelled as the call     *)
(* ending with panic = TRUE, the object keeping the fields it had at the   *)
(* point of the panic; a panicked object takes no further calls.           *)
(***************************************************************************)
EXTENDS Integers, Sequences, FiniteSets, TLC

(***************************************************************************)
(* Bounds of the model.                                                    *)
(***************************************************************************)
\* number of entries one table accepts before the model stops prepending
MaxPrepends == 3
\* length of the header value that fills half an arena block
MediumLen == 25
\* length of the header value that is larger than every capacity
LongLen == 40
\* largest index passed to DynamicTable::get
MaxGetIndex == 2
\* number of digest functions the model ranges over
NumHashKeys == 2
\* modulus of the modelled digests
DigestMod == 7

None == << >>
Some(x) == << x >>
IsSome(o) == o /= None
Unwrap(o) == o[1]

Min(a, b) == IF a < b THEN a ELSE b

(***************************************************************************)
(* Byte strings of the model.                                              *)
(***************************************************************************)
Rep(b, n) == [i \in 1..n |-> b]

NameA == << 97 >>
NameB == << 98 >>
ValueX == << 120 >>
ValueMedium == Rep(121, MediumLen)
ValueLong == Rep(122, LongLen)

Names == {NameA, NameB}

\* the (name, value) pairs handed to prepend and seek_with_name_value
Entries == {<< NameA, ValueX >>, << NameB, ValueX >>,
            << NameA, ValueMedium >>, << NameA, ValueLong >>}

\* capacities handed to with_capacity and update_capacity
Caps == {1, 34, 70}

(***************************************************************************)
(* Ordering of byte slices (Ord for [u8]): lexicographic, a strict prefix  *)
(* is smaller.  -1, 0, 1 stand for Less, Equal, Greater.                   *)
(***************************************************************************)
CmpInt(a, b) == IF a < b THEN -1 ELSE IF a > b THEN 1 ELSE 0

CmpBytes(a, b) ==
    LET first_of(diff) ==
            IF diff = {} THEN CmpInt(Len(a), Len(b))
            ELSE LET i == CHOOSE j \in diff : \A k \in diff : j <= k
                 IN CmpInt(a[i], b[i])
    IN first_of({i \in 1..Min(Len(a), Len(b)) : a[i] /= b[i]})

(***************************************************************************)
(* digest_name / digest_name_value.  std's DefaultHasher is a streaming    *)
(* hash whose algorithm is unspecified: hashKey selects one of several     *)
(* digest functions, fixed for the whole run.  The second digest is the    *)
(* hash of the name bytes followed by the value bytes.                     *)
(***************************************************************************)
RECURSIVE SumBytes(_)
SumBytes(s) == IF s = << >> THEN 0 ELSE Head(s) + SumBytes(Tail(s))

Hash(key, s) ==
    LET h == (SumBytes(s) + 3 * Len(s)) % DigestMod
    IN IF key % 2 = 0 THEN (h + key) % DigestMod ELSE (DigestMod - 1) - h

digest_name(key, name) == Hash(key, name)

digest_name_value(key, name, value) ==
    << Hash(key, name), Hash(key, name \o value) >>

(***************************************************************************)
(* h2_size: the HPACK size of an entry (RFC 7541 section 4.1).             *)
(***************************************************************************)
EntryOverhead == 32

h2_size_from_len(name_len, value_len) == name_len + value_len + EntryOverhead

h2_size(name, value) == h2_size_from_len(Len(name), Len(value))

(***************************************************************************)
(* CacheBlock: an arena of buffer_len octets of which `used` are taken     *)
(* (begin_of_unused - buffer start), the items appended to it in order     *)
(* (index_on_seq_id and index_on_name_value hold the same items), and      *)
(* last_seq_id.  An item is copied into the arena, so it is modelled by    *)
(* its bytes.                                                              *)
(***************************************************************************)
CacheBlock_new(block_size) ==
    [buffer_len |-> block_size, used |-> 0, items |-> << >>,
     last_seq_id |-> None]

CacheItem(key, seq_id, name, value) ==
    LET with(d) == [seq_id |-> seq_id, name |-> name, value |-> value,
                    name_digest |-> d[1], name_value_digest |-> d[2]]
    IN with(digest_name_value(key, name, value))

\* CacheBlock::append: None when the bytes do not fit behind begin_of_unused
CacheBlock_fits(blk, name, value) ==
    blk.used + Len(name) + Len(value) <= blk.buffer_len

CacheBlock_append(blk, key, seq_id, name, value) ==
    [blk EXCEPT !.used = @ + Len(name) + Len(value),
                !.items = Append(@, CacheItem(key, seq_id, name, value)),
                !.last_seq_id = Some(seq_id)]

\* CacheBlock::get: lookup in index_on_seq_id
CacheBlock_get(blk, seq_id) ==
    LET pick(hits) ==
            IF hits = {} THEN None ELSE Some(blk.items[CHOOSE i \in hits : TRUE])
    IN pick({i \in 1..Len(blk.items) : blk.items[i].seq_id = seq_id})

(***************************************************************************)
(* Ord for CacheItem: (name_digest, name_len, name, name_value_digest,     *)
(* value_len, value, seq_id).                                              *)
(***************************************************************************)
CmpChain(s) ==
    LET first_of(nz) ==
            IF nz = {} THEN 0 ELSE s[CHOOSE i \in nz : \A j \in nz : i <= j]
    IN first_of({i \in 1..Len(s) : s[i] /= 0})

CacheItem_cmp(a, b) ==
    CmpChain(<< CmpInt(a.name_digest, b.name_digest),
                CmpInt(Len(a.name), Len(b.name)),
                CmpBytes(a.name, b.name),
                CmpInt(a.name_value_digest, b.name_value_digest),
                CmpInt(Len(a.value), Len(b.value)),
                CmpBytes(a.value, b.value),
                CmpInt(a.seq_id, b.seq_id) >>)

\* first element of index_on_name_value.range((Included(lower_bound), Unbounded))
RangeFirst(blk, lower_bound) ==
    LET least(cand) ==
            IF cand = {} THEN None
            ELSE Some(blk.items[CHOOSE i \in cand : \A j \in cand :
                         CacheItem_cmp(blk.items[i], blk.items[j]) <= 0])
    IN least({i \in 1..Len(blk.items) :
                 CacheItem_cmp(blk.items[i], lower_bound) >= 0})

CacheBlock_seek_with_name(blk, name_digest, name) ==
    LET accept(item) ==
            IF item.name_digest > name_digest THEN None
            ELSE IF Len(item.name) > Len(name) THEN None
            ELSE IF CmpBytes(item.name, name) > 0 THEN None
            ELSE Some(item)
        visit(first) == IF first = None THEN None ELSE accept(Unwrap(first))
    IN visit(RangeFirst(blk, [seq_id |-> 0, name |-> name, value |-> << >>,
                              name_digest |-> name_digest,
                              name_value_digest |-> 0]))

CacheBlock_seek_with_name_value(blk, name_digest, name, name_value_digest, value) ==
    LET accept(item) ==
            IF item.name_digest > name_digest THEN None
            ELSE IF Len(item.name) > Len(name) THEN None
            ELSE IF CmpBytes(item.name, name) > 0 THEN None
            ELSE IF item.name_value_digest > name_value_digest THEN None
            ELSE IF Len(item.value) > Len(value) THEN None
            ELSE IF CmpBytes(item.value, value) > 0 THEN None
            ELSE Some(item)
        visit(first) == IF first = None THEN None ELSE accept(Unwrap(first))
    IN visit(RangeFirst(blk, [seq_id |-> 0, name |-> name, value |-> value,
                              name_digest |-> name_digest,
                              name_value_digest |-> name_value_digest]))

(***************************************************************************)
(* Cache: the linked list of blocks from first_block (blocks[1]) to        *)
(* last_block (blocks[Len(blocks)]) and the size of the next block.        *)
(***************************************************************************)
Cache_new(block_size) ==
    [blocks |-> << CacheBlock_new(block_size) >>,
     size_for_next_block |-> block_size]

\* Cache::append; panic when the fresh block cannot take the item either
Cache_append(cache, key, seq_id, name, value) ==
    LET put(last_block, new_block) ==
            IF CacheBlock_fits(last_block, name, value)
            THEN [cache |-> [cache EXCEPT !.blocks[Len(cache.blocks)] =
                     CacheBlock_append(last_block, key, seq_id, name, value)],
                  panic |-> FALSE]
            ELSE IF CacheBlock_fits(new_block, name, value)
            THEN [cache |-> [cache EXCEPT !.blocks = Append(@,
                     CacheBlock_append(new_block, key, seq_id, name, value))],
                  panic |-> FALSE]
            ELSE [cache |-> [cache EXCEPT !.blocks = Append(@, new_block)],
                  panic |-> TRUE]
    IN put(cache.blocks[Len(cache.blocks)],
           CacheBlock_new(cache.size_for_next_block))

(***************************************************************************)
(* Cache::get walks the blocks from first_block: a block without           *)
(* last_seq_id ends the search with None, the first block whose            *)
(* last_seq_id is not below seq_id answers, and running off the list is    *)
(* unreachable!().  The result is [panic, item].                           *)
(***************************************************************************)
RECURSIVE Cache_get_from(_, _, _)
Cache_get_from(blocks, i, seq_id) ==
    IF i > Len(blocks) THEN [panic |-> TRUE, item |-> None]
    ELSE IF blocks[i].last_seq_id = None THEN [panic |-> FALSE, item |-> None]
    ELSE IF seq_id <= Unwrap(blocks[i].last_seq_id)
         THEN [panic |-> FALSE, item |-> CacheBlock_get(blocks[i], seq_id)]
         ELSE Cache_get_from(blocks, i + 1, seq_id)

Cache_get(cache, seq_id) == Cache_get_from(cache.blocks, 1, seq_id)

\* Cache::seek_with_name: the first block, from first_block on, that has a hit
RECURSIVE Cache_seek_with_name_from(_, _, _, _)
Cache_seek_with_name_from(blocks, i, name_digest, name) ==
    LET visit(hit) ==
            IF hit /= None THEN Some(Unwrap(hit).seq_id)
            ELSE Cache_seek_with_name_from(blocks, i + 1, name_digest, name)
    IN IF i > Len(blocks) THEN None
       ELSE visit(CacheBlock_seek_with_name(blocks[i], name_digest, name))

Cache_seek_with_name(cache, key, name) ==
    Cache_seek_with_name_from(cache.blocks, 1, digest_name(key, name), name)

RECURSIVE Cache_seek_with_name_value_from(_, _, _, _, _, _)
Cache_seek_with_name_value_from(blocks, i, nd, name, nvd, value) ==
    LET visit(hit) ==
            IF hit /= None THEN Some(Unwrap(hit).seq_id)
            ELSE Cache_seek_with_name_value_from(blocks, i + 1, nd, name, nvd, value)
    IN IF i > Len(blocks) THEN None
       ELSE visit(CacheBlock_seek_with_name_value(blocks[i], nd, name, nvd, value))

Cache_seek_with_name_value(cache, key, name, value) ==
    LET seek(d) ==
            Cache_seek_with_name_value_from(cache.blocks, 1, d[1], name, d[2], value)
    IN seek(digest_name_value(key, name, value))

\* Cache::truncate: unlink leading blocks whose last_seq_id is below seq_id
RECURSIVE Cache_truncate_blocks(_, _)
Cache_truncate_blocks(blocks, seq_id) ==
    IF Head(blocks).last_seq_id = None THEN blocks
    ELSE IF Unwrap(Head(blocks).last_seq_id) >= seq_id THEN blocks
    ELSE IF Len(blocks) = 1 THEN blocks
    ELSE Cache_truncate_blocks(Tail(blocks), seq_id)

Cache_truncate(cache, seq_id) ==
    [cache EXCEPT !.blocks = Cache_truncate_blocks(@, seq_id)]

Cache_update_block_size(cache, new_size) ==
    [cache EXCEPT !.size_for_next_block = new_size]

(***************************************************************************)
(* DynamicTable.  Every operation returns [t, ret, panic]: the table after *)
(* the call, the returned value and whether the call panicked.             *)
(***************************************************************************)
DynamicTable_with_capacity(cap) ==
    [h2_used_size |-> 0,
     h2_limit_size |-> cap,
     seq_id_gen |-> 0,
     cache |-> Cache_new(cap),
     seq_id_range |-> None]

DynamicTable_len(t) ==
    IF t.seq_id_range = None THEN 0
    ELSE t.seq_id_range[2] - t.seq_id_range[1] + 1

(***************************************************************************)
(* The eviction loop of make_room.  The loop tests start_id <= end_id,     *)
(* which no iteration changes, so it runs until the sizes fit; looking up  *)
(* an id that Cache::get does not find panics in unwrap() or in            *)
(* unreachable!().  Result: [used, new_start_id, panic].                   *)
(***************************************************************************)
\* make_room_loop evicting at most one entry (`if` in place of `while`)
make_room_loop_once(t, space, used, new_start_id, start_end) ==
    LET stop(panic) ==
            [used |-> used, new_start_id |-> new_start_id, panic |-> panic]
        evict(size) ==
            IF size > used THEN stop(TRUE)
            ELSE [used |-> used - size, new_start_id |-> new_start_id + 1,
                  panic |-> FALSE]
        visit(got) ==
            IF got.panic \/ got.item = None THEN stop(TRUE)
            ELSE evict(h2_size_from_len(Len(Unwrap(got.item).name),
                                        Len(Unwrap(got.item).value)))
    IN IF used + space > t.h2_limit_size /\ start_end[1] <= start_end[2]
       THEN visit(Cache_get(t.cache, new_start_id))
       ELSE stop(FALSE)

RECURSIVE make_room_loop(_, _, _, _, _)
make_room_loop(t, space, used, new_start_id, start_end) ==
    LET stop(panic) ==
            [used |-> used, new_start_id |-> new_start_id, panic |-> panic]
        evict(size) ==
            IF size > used THEN stop(TRUE)
            ELSE make_room_loop(t, space, used - size, new_start_id + 1,
                                start_end)
        visit(got) ==
            IF got.panic \/ got.item = None THEN stop(TRUE)
            ELSE evict(h2_size_from_len(Len(Unwrap(got.item).name),
                                        Len(Unwrap(got.item).value)))
    IN IF used + space > t.h2_limit_size /\ start_end[1] <= start_end[2]
       THEN visit(Cache_get(t.cache, new_start_id))
       ELSE stop(FALSE)

\* DynamicTable::make_room; ret is "Enough" or "NoRoom"
make_room(t, space) ==
    LET answer(t2) ==
            [t |-> t2,
             ret |-> IF t2.h2_used_size + space <= t2.h2_limit_size
                     THEN "Enough" ELSE "NoRoom",
             panic |-> FALSE]
        finish(l, end_id) ==
            IF l.panic
            THEN [t |-> [t EXCEPT !.h2_used_size = l.used],
                  ret |-> "NoRoom", panic |-> TRUE]
            ELSE IF l.new_start_id > end_id
            THEN answer([t EXCEPT !.h2_used_size = l.used,
                                  !.seq_id_range = None,
                                  !.cache = Cache_truncate(@, end_id)])
            ELSE answer([t EXCEPT !.h2_used_size = l.used,
                                  !.cache = Cache_truncate(@, l.new_start_id),
                                  !.seq_id_range = << l.new_start_id, end_id >>])
    IN IF t.seq_id_range = None
       THEN IF t.h2_used_size /= 0
            THEN [t |-> t, ret |-> "NoRoom", panic |-> TRUE]
            ELSE IF space < t.h2_limit_size
                 THEN [t |-> t, ret |-> "Enough", panic |-> FALSE]
                 ELSE [t |-> t, ret |-> "NoRoom", panic |-> FALSE]
       ELSE finish(make_room_loop(t, space, t.h2_used_size,
                                  t.seq_id_range[1], t.seq_id_range),
                   t.seq_id_range[2])

\* DynamicTable::prepend; ret is None or Some([name, value, index])
DynamicTable_prepend(t, key, name, value) ==
    LET store(t0, seq_id, app) ==
            [t |-> [t0 EXCEPT !.h2_used_size = @ + h2_size(name, value),
                              !.seq_id_gen = @ + 1,
                              !.seq_id_range =
                                  IF @ = None THEN << seq_id, seq_id >>
                                  ELSE << @[1], seq_id >>,
                              !.cache = app.cache],
             ret |-> Some([name |-> name, value |-> value, index |-> 0]),
             panic |-> app.panic]
        insert(t0) ==
            store(t0, t0.seq_id_gen,
                  Cache_append(t0.cache, key, t0.seq_id_gen, name, value))
        after(room) ==
            IF room.panic THEN [t |-> room.t, ret |-> None, panic |-> TRUE]
            ELSE IF room.ret = "NoRoom"
            THEN [t |-> room.t, ret |-> None, panic |-> FALSE]
            ELSE insert(room.t)
    IN after(make_room(t, h2_size(name, value)))

\* DynamicTable::update_capacity
DynamicTable_update_capacity(t, new_cap) ==
    LET after(room) == [t |-> room.t, ret |-> None, panic |-> room.panic]
    IN after(make_room([t EXCEPT !.cache = Cache_update_block_size(@, new_cap),
                                 !.h2_limit_size = new_cap], 0))

\* DynamicTable::get counting the index from the oldest entry
DynamicTable_get_from_oldest(t, index) ==
    LET item_of(got) ==
            IF got.panic \/ got.item = None
            THEN [t |-> t, ret |-> None, panic |-> TRUE]
            ELSE [t |-> t,
                  ret |-> Some([name |-> Unwrap(got.item).name,
                                value |-> Unwrap(got.item).value,
                                index |-> index]),
                  panic |-> FALSE]
    IN IF t.seq_id_range = None THEN [t |-> t, ret |-> None, panic |-> TRUE]
       ELSE IF t.seq_id_range[1] + index > t.seq_id_range[2]
       THEN [t |-> t, ret |-> None, panic |-> FALSE]
       ELSE item_of(Cache_get(t.cache, t.seq_id_range[1] + index))

\* DynamicTable::get; ret is None or Some([name, value, index])
DynamicTable_get(t, index) ==
    LET item_of(got) ==
            IF got.panic \/ got.item = None
            THEN [t |-> t, ret |-> None, panic |-> TRUE]
            ELSE [t |-> t,
                  ret |-> Some([name |-> Unwrap(got.item).name,
                                value |-> Unwrap(got.item).value,
                                index |-> index]),
                  panic |-> FALSE]
    IN IF t.seq_id_range = None THEN [t |-> t, ret |-> None, panic |-> TRUE]
       ELSE IF t.seq_id_range[1] + index > t.seq_id_range[2]
       THEN [t |-> t, ret |-> None, panic |-> FALSE]
       ELSE item_of(Cache_get(t.cache, t.seq_id_range[2] - index))

\* DynamicTable::seq_id_to_index with its two assertions
seq_id_to_index(t, seq_id) ==
    IF t.seq_id_range = None THEN [ret |-> None, panic |-> FALSE]
    ELSE IF seq_id < t.seq_id_range[1] \/ seq_id > t.seq_id_range[2]
         THEN [ret |-> None, panic |-> TRUE]
         ELSE [ret |-> Some(t.seq_id_range[2] - seq_id), panic |-> FALSE]

\* the shared tail of seek_with_name and seek_with_name_value
seek_result(t, found) ==
    LET answer(idx) ==
            IF idx.panic \/ idx.ret = None
            THEN [t |-> t, ret |-> None, panic |-> TRUE]
            ELSE [t |-> t, ret |-> idx.ret, panic |-> FALSE]
    IN IF found = None THEN [t |-> t, ret |-> None, panic |-> FALSE]
       ELSE answer(seq_id_to_index(t, Unwrap(found)))

DynamicTable_seek_with_name(t, key, name) ==
    LET answer(found) == seek_result(t, found)
    IN answer(Cache_seek_with_name(t.cache, key, name))

DynamicTable_seek_with_name_value(t, key, name, value) ==
    LET answer(found) == seek_result(t, found)
    IN answer(Cache_seek_with_name_value(t.cache, key, name, value))

(***************************************************************************)
(* RAW_TABLE of static_table.rs: the 61 entries of RFC 7541 Appendix A     *)
(* behind a dummy entry for index 0.  RAW_TABLE[i + 1] is the Rust         *)
(* RAW_TABLE[i]; names and values are spelled as octets.                   *)
(***************************************************************************)
SItem(name, value) == [name |-> name, value |-> value]

RAW_TABLE == <<
    \* 0: ""
    SItem(<< >>, None),
    \* 1: ":authority"
    SItem(<< 58, 97, 117, 116, 104, 111, 114, 105, 116, 121 >>, None),
    \* 2: ":method" = "GET"
    SItem(<< 58, 109, 101, 116, 104, 111, 100 >>, Some(<< 71, 69, 84 >>)),
    \* 3: ":method" = "POST"
    SItem(<< 58, 109, 101, 116, 104, 111, 100 >>, Some(<< 80, 79, 83, 84 >>)),
    \* 4: ":path" = "/"
    SItem(<< 58, 112, 97, 116, 104 >>, Some(<< 47 >>)),
    \* 5: ":path" = "/index.html"
    SItem(<< 58, 112, 97, 116, 104 >>, Some(<< 47, 105, 110, 100, 101, 120, 46, 104, 116, 109, 108 >>)),
    \* 6: ":scheme" = "http"
    SItem(<< 58, 115, 99, 104, 101, 109, 101 >>, Some(<< 104, 116, 116, 112 >>)),
    \* 7: ":scheme" = "https"
    SItem(<< 58, 115, 99, 104, 101, 109, 101 >>, Some(<< 104, 116, 116, 112, 115 >>)),
    \* 8: ":status" = "200"
    SItem(<< 58, 115, 116, 97, 116, 117, 115 >>, Some(<< 50, 48, 48 >>)),
    \* 9: ":status" = "204"
    SItem(<< 58, 115, 116, 97, 116, 117, 115 >>, Some(<< 50, 48, 52 >>)),
    \* 10: ":status" = "206"
    SItem(<< 58, 115, 116, 97, 116, 117, 115 >>, Some(<< 50, 48, 54 >>)),
    \* 11: ":status" = "304"
    SItem(<< 58, 115, 116, 97, 116, 117, 115 >>, Some(<< 51, 48, 52 >>)),
    \* 12: ":status" = "400"
    SItem(<< 58, 115, 116, 97, 116, 117, 115 >>, Some(<< 52, 48, 48 >>)),
    \* 13: ":status" = "404"
    SItem(<< 58, 115, 116, 97, 116, 117, 115 >>, Some(<< 52, 48, 52 >>)),
    \* 14: ":status" = "500"
    SItem(<< 58, 115, 116, 97, 116, 117, 115 >>, Some(<< 53, 48, 48 >>)),
    \* 15: "accept-charset"
    SItem(<< 97, 99, 99, 101, 112, 116, 45, 99, 104, 97, 114, 115, 101, 116 >>, None),
    \* 16: "accept-encoding" = "gzip, deflate"
    SItem(<< 97, 99, 99, 101, 112, 116, 45, 101, 110, 99, 111, 100, 105, 110, 103 >>, Some(<< 103, 122, 105, 112, 44, 32, 100, 101, 102, 108, 97, 116, 101 >>)),
    \* 17: "accept-language"
    SItem(<< 97, 99, 99, 101, 112, 116, 45, 108, 97, 110, 103, 117, 97, 103, 101 >>, None),
    \* 18: "accept-ranges"
    SItem(<< 97, 99, 99, 101, 112, 116, 45, 114, 97, 110, 103, 101, 115 >>, None),
    \* 19: "accept"
    SItem(<< 97, 99, 99, 101, 112, 116 >>, None),
    \* 20: "access-control-allow-origin"
    SItem(<< 97, 99, 99, 101, 115, 115, 45, 99, 111, 110, 116, 114, 111, 108, 45, 97, 108, 108, 111, 119, 45, 111, 114, 105, 103, 105, 110 >>, None),
    \* 21: "age"
    SItem(<< 97, 103, 101 >>, None),
    \* 22: "allow"
    SItem(<< 97, 108, 108, 111, 119 >>, None),
    \* 23: "authorization"
    SItem(<< 97, 117, 116, 104, 111, 114, 105, 122, 97, 116, 105, 111, 110 >>, None),
    \* 24: "cache-control"
    SItem(<< 99, 97, 99, 104, 101, 45, 99, 111, 110, 116, 114, 111, 108 >>, None),
    \* 25: "content-disposition"
    SItem(<< 99, 111, 110, 116, 101, 110, 116, 45, 100, 105, 115, 112, 111, 115, 105, 116, 105, 111, 110 >>, None),
    \* 26: "content-encoding"
    SItem(<< 99, 111, 110, 116, 101, 110, 116, 45, 101, 110, 99, 111, 100, 105, 110, 103 >>, None),
    \* 27: "content-language"
    SItem(<< 99, 111, 110, 116, 101, 110, 116, 45, 108, 97, 110, 103, 117, 97, 103, 101 >>, None),
    \* 28: "content-length"
    SItem(<< 99, 111, 110, 116, 101, 110, 116, 45, 108, 101, 110, 103, 116, 104 >>, None),
    \* 29: "content-location"
    SItem(<< 99, 111, 110, 116, 101, 110, 116, 45, 108, 111, 99, 97, 116, 105, 111, 110 >>, None),
    \* 30: "content-range"
    SItem(<< 99, 111, 110, 116, 101, 110, 116, 45, 114, 97, 110, 103, 101 >>, None),
    \* 31: "content-type"
    SItem(<< 99, 111, 110, 116, 101, 110, 116, 45, 116, 121, 112, 101 >>, None),
    \* 32: "cookie"
    SItem(<< 99, 111, 111, 107, 105, 101 >>, None),
    \* 33: "date"
    SItem(<< 100, 97, 116, 101 >>, None),
    \* 34: "etag"
    SItem(<< 101, 116, 97, 103 >>, None),
    \* 35: "expect"
    SItem(<< 101, 120, 112, 101, 99, 116 >>, None),
    \* 36: "expires"
    SItem(<< 101, 120, 112, 105, 114, 101, 115 >>, None),
    \* 37: "from"
    SItem(<< 102, 114, 111, 109 >>, None),
    \* 38: "host"
    SItem(<< 104, 111, 115, 116 >>, None),
    \* 39: "if-match"
    SItem(<< 105, 102, 45, 109, 97, 116, 99, 104 >>, None),
    \* 40: "if-modified-since"
    SItem(<< 105, 102, 45, 109, 111, 100, 105, 102, 105, 101, 100, 45, 115, 105, 110, 99, 101 >>, None),
    \* 41: "if-none-match"
    SItem(<< 105, 102, 45, 110, 111, 110, 101, 45, 109, 97, 116, 99, 104 >>, None),
    \* 42: "if-range"
    SItem(<< 105, 102, 45, 114, 97, 110, 103, 101 >>, None),
    \* 43: "if-unmodified-since"
    SItem(<< 105, 102, 45, 117, 110, 109, 111, 100, 105, 102, 105, 101, 100, 45, 115, 105, 110, 99, 101 >>, None),
    \* 44: "last-modified"
    SItem(<< 108, 97, 115, 116, 45, 109, 111, 100, 105, 102, 105, 101, 100 >>, None),
    \* 45: "link"
    SItem(<< 108, 105, 110, 107 >>, None),
    \* 46: "location"
    SItem(<< 108, 111, 99, 97, 116, 105, 111, 110 >>, None),
    \* 47: "max-forwards"
    SItem(<< 109, 97, 120, 45, 102, 111, 114, 119, 97, 114, 100, 115 >>, None),
    \* 48: "proxy-authenticate"
    SItem(<< 112, 114, 111, 120, 121, 45, 97, 117, 116, 104, 101, 110, 116, 105, 99, 97, 116, 101 >>, None),
    \* 49: "proxy-authorization"
    SItem(<< 112, 114, 111, 120, 121, 45, 97, 117, 116, 104, 111, 114, 105, 122, 97, 116, 105, 111, 110 >>, None),
    \* 50: "range"
    SItem(<< 114, 97, 110, 103, 101 >>, None),
    \* 51: "referer"
    SItem(<< 114, 101, 102, 101, 114, 101, 114 >>, None),
    \* 52: "refresh"
    SItem(<< 114, 101, 102, 114, 101, 115, 104 >>, None),
    \* 53: "retry-after"
    SItem(<< 114, 101, 116, 114, 121, 45, 97, 102, 116, 101, 114 >>, None),
    \* 54: "server"
    SItem(<< 115, 101, 114, 118, 101, 114 >>, None),
    \* 55: "set-cookie"
    SItem(<< 115, 101, 116, 45, 99, 111, 111, 107, 105, 101 >>, None),
    \* 56: "strict-transport-security"
    SItem(<< 115, 116, 114, 105, 99, 116, 45, 116, 114, 97, 110, 115, 112, 111, 114, 116, 45, 115, 101, 99, 117, 114, 105, 116, 121 >>, None),
    \* 57: "transfer-encoding"
    SItem(<< 116, 114, 97, 110, 115, 102, 101, 114, 45, 101, 110, 99, 111, 100, 105, 110, 103 >>, None),
    \* 58: "user-agent"
    SItem(<< 117, 115, 101, 114, 45, 97, 103, 101, 110, 116 >>, None),
    \* 59: "vary"
    SItem(<< 118, 97, 114, 121 >>, None),
    \* 60: "via"
    SItem(<< 118, 105, 97 >>, None),
    \* 61: "www-authenticate"
    SItem(<< 119, 119, 119, 45, 97, 117, 116, 104, 101, 110, 116, 105, 99, 97, 116, 101 >>, None)
>>

\* RAW_TABLE.len()
RAW_TABLE_len == Len(RAW_TABLE)

(***************************************************************************)
(* The Huffman code of RFC 7541 Appendix B (huffman_codes::RAW_TABLE):     *)
(* HUFFMAN_CODES[c + 1] = << bits, lsb >> is the code of octet c, its      *)
(* length in bits and its value; entry 257 is EOS.                         *)
(***************************************************************************)
HUFFMAN_CODES == <<
    << 13, 8184 >>, << 23, 8388568 >>, << 28, 268435426 >>,
    << 28, 268435427 >>, << 28, 268435428 >>, << 28, 268435429 >>,
    << 28, 268435430 >>, << 28, 268435431 >>, << 28, 268435432 >>,
    << 24, 16777194 >>, << 30, 1073741820 >>, << 28, 268435433 >>,
    << 28, 268435434 >>, << 30, 1073741821 >>, << 28, 268435435 >>,
    << 28, 268435436 >>, << 28, 268435437 >>, << 28, 268435438 >>,
    << 28, 268435439 >>, << 28, 268435440 >>, << 28, 268435441 >>,
    << 28, 268435442 >>, << 30, 1073741822 >>, << 28, 268435443 >>,
    << 28, 268435444 >>, << 28, 268435445 >>, << 28, 268435446 >>,
    << 28, 268435447 >>, << 28, 268435448 >>, << 28, 268435449 >>,
    << 28, 268435450 >>, << 28, 268435451 >>, << 6, 20 >>, << 10, 1016 >>,
    << 10, 1017 >>, << 12, 4090 >>, << 13, 8185 >>, << 6, 21 >>,
    << 8, 248 >>, << 11, 2042 >>, << 10, 1018 >>, << 10, 1019 >>,
    << 8, 249 >>, << 11, 2043 >>, << 8, 250 >>, << 6, 22 >>, << 6, 23 >>,
    << 6, 24 >>, << 5, 0 >>, << 5, 1 >>, << 5, 2 >>, << 6, 25 >>,
    << 6, 26 >>, << 6, 27 >>, << 6, 28 >>, << 6, 29 >>, << 6, 30 >>,
    << 6, 31 >>, << 7, 92 >>, << 8, 251 >>, << 15, 32764 >>, << 6, 32 >>,
    << 12, 4091 >>, << 10, 1020 >>, << 13, 8186 >>, << 6, 33 >>,
    << 7, 93 >>, << 7, 94 >>, << 7, 95 >>, << 7, 96 >>, << 7, 97 >>,
    << 7, 98 >>, << 7, 99 >>, << 7, 100 >>, << 7, 101 >>, << 7, 102 >>,
    << 7, 103 >>, << 7, 104 >>, << 7, 105 >>, << 7, 106 >>, << 7, 107 >>,
    << 7, 108 >>, << 7, 109 >>, << 7, 110 >>, << 7, 111 >>, << 7, 112 >>,
    << 7, 113 >>, << 7, 114 >>, << 8, 252 >>, << 7, 115 >>, << 8, 253 >>,
    << 13, 8187 >>, << 19, 524272 >>, << 13, 8188 >>, << 14, 16380 >>,
    << 6, 34 >>, << 15, 32765 >>, << 5, 3 >>, << 6, 35 >>, << 5, 4 >>,
    << 6, 36 >>, << 5, 5 >>, << 6, 37 >>, << 6, 38 >>, << 6, 39 >>,
    << 5, 6 >>, << 7, 116 >>, << 7, 117 >>, << 6, 40 >>, << 6, 41 >>,
    << 6, 42 >>, << 5, 7 >>, << 6, 43 >>, << 7, 118 >>, << 6, 44 >>,
    << 5, 8 >>, << 5, 9 >>, << 6, 45 >>, << 7, 119 >>, << 7, 120 >>,
    << 7, 121 >>, << 7, 122 >>, << 7, 123 >>, << 15, 32766 >>,
    << 11, 2044 >>, << 14, 16381 >>, << 13, 8189 >>, << 28, 268435452 >>,
    << 20, 1048550 >>, << 22, 4194258 >>, << 20, 1048551 >>,
    << 20, 1048552 >>, << 22, 4194259 >>, << 22, 4194260 >>,
    << 22, 4194261 >>, << 23, 8388569 >>, << 22, 4194262 >>,
    << 23, 8388570 >>, << 23, 8388571 >>, << 23, 8388572 >>,
    << 23, 8388573 >>, << 23, 8388574 >>, << 24, 16777195 >>,
    << 23, 8388575 >>, << 24, 16777196 >>, << 24, 16777197 >>,
    << 22, 4194263 >>, << 23, 8388576 >>, << 24, 16777198 >>,
    << 23, 8388577 >>, << 23, 8388578 >>, << 23, 8388579 >>,
    << 23, 8388580 >>, << 21, 2097116 >>, << 22, 4194264 >>,
    << 23, 8388581 >>, << 22, 4194265 >>, << 23, 8388582 >>,
    << 23, 8388583 >>, << 24, 16777199 >>, << 22, 4194266 >>,
    << 21, 2097117 >>, << 20, 1048553 >>, << 22, 4194267 >>,
    << 22, 4194268 >>, << 23, 8388584 >>, << 23, 8388585 >>,
    << 21, 2097118 >>, << 23, 8388586 >>, << 22, 4194269 >>,
    << 22, 4194270 >>, << 24, 16777200 >>, << 21, 2097119 >>,
    << 22, 4194271 >>, << 23, 8388587 >>, << 23, 8388588 >>,
    << 21, 2097120 >>, << 21, 2097121 >>, << 22, 4194272 >>,
    << 21, 2097122 >>, << 23, 8388589 >>, << 22, 4194273 >>,
    << 23, 8388590 >>, << 23, 8388591 >>, << 20, 1048554 >>,
    << 22, 4194274 >>, << 22, 4194275 >>, << 22, 4194276 >>,
    << 23, 8388592 >>, << 22, 4194277 >>, << 22, 4194278 >>,
    << 23, 8388593 >>, << 26, 67108832 >>, << 26, 67108833 >>,
    << 20, 1048555 >>, << 19, 524273 >>, << 22, 4194279 >>,
    << 23, 8388594 >>, << 22, 4194280 >>, << 25, 33554412 >>,
    << 26, 67108834 >>, << 26, 67108835 >>, << 26, 67108836 >>,
    << 27, 134217694 >>, << 27, 134217695 >>, << 26, 67108837 >>,
    << 24, 16777201 >>, << 25, 33554413 >>, << 19, 524274 >>,
    << 21, 2097123 >>, << 26, 67108838 >>, << 27, 134217696 >>,
    << 27, 134217697 >>, << 26, 67108839 >>, << 27, 134217698 >>,
    << 24, 16777202 >>, << 21, 2097124 >>, << 21, 2097125 >>,
    << 26, 67108840 >>, << 26, 67108841 >>, << 28, 268435453 >>,
    << 27, 134217699 >>, << 27, 134217700 >>, << 27, 134217701 >>,
    << 20, 1048556 >>, << 24, 16777203 >>, << 20, 1048557 >>,
    << 21, 2097126 >>, << 22, 4194281 >>, << 21, 2097127 >>,
    << 21, 2097128 >>, << 23, 8388595 >>, << 22, 4194282 >>,
    << 22, 4194283 >>, << 25, 33554414 >>, << 25, 33554415 >>,
    << 24, 16777204 >>, << 24, 16777205 >>, << 26, 67108842 >>,
    << 23, 8388596 >>, << 26, 67108843 >>, << 27, 134217702 >>,
    << 26, 67108844 >>, << 26, 67108845 >>, << 27, 134217703 >>,
    << 27, 134217704 >>, << 27, 134217705 >>, << 27, 134217706 >>,
    << 27, 134217707 >>, << 28, 268435454 >>, << 27, 134217708 >>,
    << 27, 134217709 >>, << 27, 134217710 >>, << 27, 134217711 >>,
    << 27, 134217712 >>, << 26, 67108846 >>, << 30, 1073741823 >>
>>

\* Char::EoS, the symbol of entry 257
EoS == 256

\* HUFFMAN_TREE: the leaf a path of bits from the root ends at
HUFFMAN_TREE ==
    [c \in {HUFFMAN_CODES[s + 1] : s \in 0..EoS} |->
        CHOOSE s \in 0..EoS : HUFFMAN_CODES[s + 1] = c]

(***************************************************************************)
(* Results of the parsers: Ok((rem, value)), Err(message) or a panic.      *)
(***************************************************************************)
Ok(rem, value) ==
    [ok |-> TRUE, panic |-> FALSE, err |-> "", rem |-> rem, value |-> value]

Err(msg) ==
    [ok |-> FALSE, panic |-> FALSE, err |-> msg, rem |-> << >>, value |-> None]

Panic ==
    [ok |-> FALSE, panic |-> TRUE, err |-> "", rem |-> << >>, value |-> None]

ErrShortage == "shortage of input on deserialization."
ErrCorrupted == "corrupted data."
ErrHuffman == "decode error on Huffman compressed headers."
ErrIndex == "index out of space."
ErrNoValue == "request a indexed no-value header field."

\* x & (2^bits - 1) and x >> bits of an octet
LowBits(x, bits) == x % (2 ^ bits)
HighBits(x, bits) == x \div (2 ^ bits)

\* (x & (1 << bit)) > 0
BitSet(x, bit) == HighBits(x, bit) % 2 = 1

\* BitIterator: the bits of buf, most significant first
Bits(buf) ==
    [i \in 1..(8 * Len(buf)) |->
        HighBits(buf[((i - 1) \div 8) + 1], 7 - ((i - 1) % 8)) % 2]

\* the closing loop of huffman::decode: advance(1) until a leaf is reached
RECURSIVE huffman_pad(_, _)
huffman_pad(n, v) ==
    IF << n + 1, 2 * v + 1 >> \in DOMAIN HUFFMAN_TREE
    THEN HUFFMAN_TREE[<< n + 1, 2 * v + 1 >>]
    ELSE huffman_pad(n + 1, 2 * v + 1)

\* the path the walker has taken after the n bits from bit i on
RECURSIVE walker_path(_, _, _)
walker_path(bits, i, n) ==
    IF n = 0 THEN 0
    ELSE 2 * walker_path(bits, i, n - 1) + bits[i + n - 1]

\* the longest code
MaxCodeBits == 30

\* huffman::decode from bit i on, the walker at the root: the walker
\* advances to the leaf the next bits lead to, or the bits run out below
\* the root and the closing loop decides
RECURSIVE huffman_walk(_, _, _)
huffman_walk(bits, i, res) ==
    LET left == Len(bits) - i + 1
        leaf_at == {n \in 1..Min(MaxCodeBits, left) :
                       << n, walker_path(bits, i, n) >> \in DOMAIN HUFFMAN_TREE}
        step(n, c) ==
            IF c = EoS THEN Err(ErrHuffman)
            ELSE huffman_walk(bits, i + n, Append(res, c))
    IN IF left = 0 THEN Ok(<< >>, res)
       ELSE IF leaf_at = {}
       THEN IF huffman_pad(left, walker_path(bits, i, left)) = EoS
            THEN Ok(<< >>, res)
            ELSE Err(ErrHuffman)
       ELSE \* the code is prefix-free: leaf_at is a singleton
            LET n == CHOOSE k \in leaf_at : TRUE
            IN step(n, HUFFMAN_TREE[<< n, walker_path(bits, i, n) >>])

huffman_decode(buf) == huffman_walk(Bits(buf), 1, << >>)

\* hpack::check_prefix
check_prefix(x, mask, want) ==
    LET low == 255 - mask
    IN (x - (x % (low + 1))) = want

\* the length of buf in hpack::parse_uint
UintBufLen == 10

\* the loop of hpack::parse_uint: the 7-bit groups, least significant first.
\* buf[buf_len] is written before buf_len is compared with buf.len(), so
\* an eleventh group is an out-of-bounds write
RECURSIVE parse_uint_loop(_, _)
parse_uint_loop(input, buf) ==
    IF input = << >> THEN Err(ErrShortage)
    ELSE IF Len(buf) >= UintBufLen THEN Panic
    ELSE IF Len(buf) + 1 > UintBufLen THEN Err(ErrCorrupted)
    ELSE IF Head(input) < 128
         THEN Ok(Tail(input), Append(buf, LowBits(Head(input), 7)))
         ELSE parse_uint_loop(Tail(input), Append(buf, LowBits(Head(input), 7)))

\* res <<= 7; res |= buf[buf_len] from the last group down to the first
RECURSIVE uint_from_buf(_)
uint_from_buf(buf) ==
    IF buf = << >> THEN 0
    ELSE Head(buf) + 128 * uint_from_buf(Tail(buf))

\* hpack::parse_uint
hpack_parse_uint(input, prefix_bits) ==
    LET mask == (2 ^ prefix_bits) - 1
        total(groups) ==
            IF ~groups.ok THEN groups
            ELSE Ok(groups.rem, uint_from_buf(groups.value) + mask)
    IN IF input = << >> THEN Err(ErrShortage)
       ELSE IF LowBits(Head(input), prefix_bits) < mask
       THEN Ok(Tail(input), LowBits(Head(input), prefix_bits))
       ELSE total(parse_uint_loop(Tail(input), << >>))

\* hpack::parse_string
parse_string(input) ==
    LET decoded(d, rem) == IF ~d.ok THEN d ELSE Ok(rem, d.value)
        split(u) ==
            IF ~u.ok THEN u
            ELSE IF Len(u.rem) < u.value THEN Err(ErrShortage)
            ELSE IF ~BitSet(Head(input), 7)
                 THEN Ok(SubSeq(u.rem, u.value + 1, Len(u.rem)),
                         SubSeq(u.rem, 1, u.value))
                 ELSE decoded(huffman_decode(SubSeq(u.rem, 1, u.value)),
                              SubSeq(u.rem, u.value + 1, Len(u.rem)))
    IN IF input = << >> THEN Err(ErrShortage)
       ELSE split(hpack_parse_uint(input, 7))

(***************************************************************************)
(* hpack::Decoder.  The decoder is its dynamic table; a lookup answers     *)
(* Ok with value = [name, value], where value is an Option.                *)
(***************************************************************************)
Decoder_with_capacity(cap) == DynamicTable_with_capacity(cap)

\* Decoder::get_from_static_table
get_from_static_table(idx) ==
    IF idx < 1 THEN Err(ErrIndex)
    ELSE Ok(<< >>, [name |-> RAW_TABLE[idx + 1].name,
                    value |-> RAW_TABLE[idx + 1].value])

\* Decoder::get_from_dynamic_table reading one entry too far
get_from_dynamic_table_shifted(t, idx) ==
    LET item(got) ==
            IF got.panic \/ got.ret = None THEN Panic
            ELSE Ok(<< >>, [name |-> Unwrap(got.ret).name,
                            value |-> Some(Unwrap(got.ret).value)])
    IN IF idx >= RAW_TABLE_len + DynamicTable_len(t) THEN Err(ErrIndex)
       ELSE item(DynamicTable_get(t, idx - RAW_TABLE_len + 1))

\* Decoder::get_from_dynamic_table
get_from_dynamic_table(t, idx) ==
    LET item(got) ==
            IF got.panic \/ got.ret = None THEN Panic
            ELSE Ok(<< >>, [name |-> Unwrap(got.ret).name,
                            value |-> Some(Unwrap(got.ret).value)])
    IN IF idx >= RAW_TABLE_len + DynamicTable_len(t) THEN Err(ErrIndex)
       ELSE item(DynamicTable_get(t, idx - RAW_TABLE_len))

\* Decoder::get_from_index_table
get_from_index_table(t, idx) ==
    IF idx < RAW_TABLE_len THEN get_from_static_table(idx)
    ELSE get_from_dynamic_table(t, idx)

\* DecodeResult::Normal and DecodeResult::NeverIndex
DecodeResult_Normal(name, value) ==
    [kind |-> "Normal", name |-> name, value |-> value, raw |-> << >>]

DecodeResult_NeverIndex(name, value, raw) ==
    [kind |-> "NeverIndex", name |-> name, value |-> value, raw |-> raw]

\* the Indexed Header Field branch of parse_header_field without its check
\* that the entry has a value
parse_indexed_any_value(t, input) ==
    LET entry(u, e) ==
            IF ~e.ok THEN [t |-> t, r |-> e]
            ELSE [t |-> t,
                  r |-> Ok(u.rem, DecodeResult_Normal(e.value.name,
                               IF e.value.value = None THEN << >>
                               ELSE Unwrap(e.value.value)))]
        indexed(u) ==
            IF ~u.ok THEN [t |-> t, r |-> u]
            ELSE entry(u, get_from_index_table(t, u.value))
    IN indexed(hpack_parse_uint(input, 7))

\* the Indexed Header Field branch of parse_header_field
parse_indexed(t, input) ==
    LET entry(u, e) ==
            IF ~e.ok THEN [t |-> t, r |-> e]
            ELSE IF e.value.value = None
            THEN [t |-> t, r |-> Err(ErrNoValue)]
            ELSE [t |-> t,
                  r |-> Ok(u.rem, DecodeResult_Normal(e.value.name,
                                      Unwrap(e.value.value)))]
        indexed(u) ==
            IF ~u.ok THEN [t |-> t, r |-> u]
            ELSE entry(u, get_from_index_table(t, u.value))
    IN indexed(hpack_parse_uint(input, 7))

\* the three literal branches of parse_header_field: the name comes from
\* the index table (idx > 0) or from the input, the value from the input;
\* mode "incr" prepends the field to the dynamic table, mode "never" keeps
\* the octets of the representation
parse_literal(t, key, input, prefix_bits, mode) ==
    LET inserted_field(p, name, v) ==
            IF p.panic THEN [t |-> p.t, r |-> Panic]
            ELSE [t |-> p.t,
                  r |-> Ok(v.rem, DecodeResult_Normal(name, v.value))]
        field(name, v) ==
            IF ~v.ok THEN [t |-> t, r |-> v]
            ELSE IF mode = "incr"
            THEN inserted_field(DynamicTable_prepend(t, key, name, v.value),
                                name, v)
            ELSE IF mode = "never"
            THEN [t |-> t,
                  r |-> Ok(v.rem, DecodeResult_NeverIndex(name, v.value,
                               SubSeq(input, 1, Len(input) - Len(v.rem))))]
            ELSE [t |-> t,
                  r |-> Ok(v.rem, DecodeResult_Normal(name, v.value))]
        indexed_name(e, rem) ==
            IF ~e.ok THEN [t |-> t, r |-> e]
            ELSE field(e.value.name, parse_string(rem))
        literal_name(n) ==
            IF ~n.ok THEN [t |-> t, r |-> n]
            ELSE field(n.value, parse_string(n.rem))
        named(u) ==
            IF ~u.ok THEN [t |-> t, r |-> u]
            ELSE IF u.value > 0
            THEN indexed_name(get_from_index_table(t, u.value), u.rem)
            ELSE literal_name(parse_string(u.rem))
    IN named(hpack_parse_uint(input, prefix_bits))

\* Decoder::parse_header_field with the literal without indexing taking the
\* branch of the literal with incremental indexing
parse_header_field_indexing_all(t, key, input) ==
    IF input = << >> THEN [t |-> t, r |-> Err(ErrShortage)]
    ELSE IF check_prefix(Head(input), 128, 128) THEN parse_indexed(t, input)
    ELSE IF check_prefix(Head(input), 192, 64)
    THEN parse_literal(t, key, input, 6, "incr")
    ELSE IF check_prefix(Head(input), 240, 0)
    THEN parse_literal(t, key, input, 4, "incr")
    ELSE IF check_prefix(Head(input), 240, 16)
    THEN parse_literal(t, key, input, 4, "never")
    ELSE [t |-> t, r |-> Panic]

\* Decoder::parse_header_field: the decoder after the call and
\* r = Ok((rem, DecodeResult)), Err(message) or a panic
parse_header_field(t, key, input) ==
    IF input = << >> THEN [t |-> t, r |-> Err(ErrShortage)]
    ELSE IF check_prefix(Head(input), 128, 128) THEN parse_indexed(t, input)
    ELSE IF check_prefix(Head(input), 192, 64)
    THEN parse_literal(t, key, input, 6, "incr")
    ELSE IF check_prefix(Head(input), 240, 0)
    THEN parse_literal(t, key, input, 4, "without")
    ELSE IF check_prefix(Head(input), 240, 16)
    THEN parse_literal(t, key, input, 4, "never")
    ELSE [t |-> t, r |-> Panic]

(***************************************************************************)
(* frames.rs: the HEADERS frame.                                           *)
(***************************************************************************)
\* the big-endian value of octets
RECURSIVE be_uint(_)
be_uint(buf) ==
    IF buf = << >> THEN 0
    ELSE 256 * be_uint(SubSeq(buf, 1, Len(buf) - 1)) + buf[Len(buf)]

\* parsers::parse_uint
parsers_parse_uint(buf, n) ==
    IF Len(buf) < n THEN Panic
    ELSE Ok(SubSeq(buf, n + 1, Len(buf)), be_uint(SubSeq(buf, 1, n)))

FrameHeader(flags, stream_id) == [flags |-> flags, stream_id |-> stream_id]

\* Error::new and the Ok of ReceivedHeadersFrame::parse
Error_new(level, code, msg) ==
    [ok |-> FALSE, level |-> level, code |-> code, msg |-> msg, frame |-> None]

Ok_frame(frame) ==
    [ok |-> TRUE, level |-> "", code |-> "", msg |-> "", frame |-> Some(frame)]

\* the loop over the header block in ReceivedHeadersFrame::parse;
\* accepted lists the fields the dynamic table took in
RECURSIVE parse_header_block(_, _, _, _, _)
parse_header_block(t, key, input, header_block, accepted) ==
    LET next(f) ==
            IF f.r.panic
            THEN [t |-> f.t, panic |-> TRUE, err |-> "",
                  header_block |-> header_block, accepted |-> accepted]
            ELSE IF ~f.r.ok
            THEN [t |-> f.t, panic |-> FALSE, err |-> f.r.err,
                  header_block |-> header_block, accepted |-> accepted]
            ELSE parse_header_block(f.t, key, f.r.rem,
                     Append(header_block, f.r.value),
                     IF f.t.seq_id_gen > t.seq_id_gen
                     THEN Append(accepted, << f.r.value.name, f.r.value.value >>)
                     ELSE accepted)
    IN IF input = << >>
       THEN [t |-> t, panic |-> FALSE, err |-> "",
             header_block |-> header_block, accepted |-> accepted]
       ELSE next(parse_header_field(t, key, input))

\* ReceivedHeadersFrame::parse: the decoder after the call, the fields it
\* took in, and ret = Ok(frame) or Err(Error), unless the call panics
ReceivedHeadersFrame_parse(t, key, header, body) ==
    LET padded == BitSet(header.flags, 3)
        prioritized == BitSet(header.flags, 5)
        failed(t1, acc) ==
            [t |-> t1, panic |-> TRUE, ret |-> None, accepted |-> acc]
        built(b, tail, priority) ==
            IF b.panic THEN failed(b.t, b.accepted)
            ELSE IF b.err /= ""
            THEN [t |-> b.t, panic |-> FALSE, accepted |-> b.accepted,
                  ret |-> Error_new("ConnectionLevel", "CompressionError",
                                    b.err)]
            ELSE [t |-> b.t, panic |-> FALSE, accepted |-> b.accepted,
                  ret |-> Ok_frame(
                      [stream_id |-> header.stream_id,
                       end_stream |-> BitSet(header.flags, 0),
                       end_headers |-> BitSet(header.flags, 2),
                       header_block |-> b.header_block,
                       padding |-> IF padded THEN Some(tail) ELSE None,
                       priority |-> priority])]
        block(rest, pad_len, priority) ==
            IF pad_len > Len(rest)
            THEN [t |-> t, panic |-> FALSE, accepted |-> << >>,
                  ret |-> Error_new("ConnectionLevel", "ProtocolError",
                                    "Too long padding.")]
            ELSE built(parse_header_block(t, key,
                           SubSeq(rest, 1, Len(rest) - pad_len),
                           << >>, << >>),
                       SubSeq(rest, Len(rest) - pad_len + 1, Len(rest)),
                       priority)
        weighted(sid, weight, pad_len) ==
            IF weight.panic THEN failed(t, << >>)
            ELSE block(weight.rem, pad_len,
                       Some([weight |-> weight.value,
                             dependency_stream |-> sid.value]))
        depending(sid, pad_len) ==
            IF sid.panic THEN failed(t, << >>)
            ELSE weighted(sid, parsers_parse_uint(sid.rem, 1), pad_len)
        unpadded(pad) ==
            IF pad.panic THEN failed(t, << >>)
            ELSE IF prioritized
            THEN depending(parsers_parse_uint(pad.rem, 4), pad.value)
            ELSE block(pad.rem, pad.value, None)
    IN IF header.stream_id = 0
       THEN [t |-> t, panic |-> FALSE, accepted |-> << >>,
             ret |-> Error_new("ConnectionLevel", "ProtocolError",
                        "ReceivedHeadersFrame associates with stream 0.")]
       ELSE IF padded THEN unpadded(parsers_parse_uint(body, 1))
       ELSE unpadded(Ok(body, 0))

(***************************************************************************)
(* The encoding side: hpack/int.rs, hpack/huffman.rs, hpack/string.rs and  *)
(* the Seeker of hpack/static_table.rs.                                    *)
(***************************************************************************)
\* the while loop of int::serialize_uint: 7-bit groups, least significant
\* first, 0x80 on all but the last
RECURSIVE serialize_uint_groups(_)
serialize_uint_groups(v) ==
    IF v > 127
    THEN << 128 + (v % 128) >> \o serialize_uint_groups(v \div 128)
    ELSE << v >>

\* int::serialize_uint
hpack_serialize_uint(v, prefix_bits, first_byte_flags) ==
    LET prefix_mask == (2 ^ prefix_bits) - 1
        flags == first_byte_flags - (first_byte_flags % (prefix_mask + 1))
    IN IF v < prefix_mask THEN << flags + v >>
       ELSE << flags + prefix_mask >>
            \o serialize_uint_groups(v - prefix_mask)

\* the code of octet c, most significant bit first
CodeBits(c) ==
    [i \in 1..HUFFMAN_CODES[c + 1][1] |->
        (HUFFMAN_CODES[c + 1][2] \div (2 ^ (HUFFMAN_CODES[c + 1][1] - i))) % 2]

\* the codes of the octets of input, one after the other
RECURSIVE huffman_code_bits(_)
huffman_code_bits(input) ==
    IF input = << >> THEN << >>
    ELSE CodeBits(Head(input)) \o huffman_code_bits(Tail(input))

\* huffman::encode filling the last octet with zeros
huffman_encode_zero_filled(input) ==
    LET octets(b) ==
            [k \in 1..(Len(b) \div 8) |->
                128 * b[8 * k - 7] + 64 * b[8 * k - 6] + 32 * b[8 * k - 5]
                + 16 * b[8 * k - 4] + 8 * b[8 * k - 3] + 4 * b[8 * k - 2]
                + 2 * b[8 * k - 1] + b[8 * k]]
        padded(b) == octets(b \o Rep(0, (8 - (Len(b) % 8)) % 8))
    IN padded(huffman_code_bits(input))

\* huffman::encode: the codes, then ones up to the end of the last octet
huffman_encode(input) ==
    LET octets(b) ==
            [k \in 1..(Len(b) \div 8) |->
                128 * b[8 * k - 7] + 64 * b[8 * k - 6] + 32 * b[8 * k - 5]
                + 16 * b[8 * k - 4] + 8 * b[8 * k - 3] + 4 * b[8 * k - 2]
                + 2 * b[8 * k - 1] + b[8 * k]]
        padded(b) == octets(b \o Rep(1, (8 - (Len(b) % 8)) % 8))
    IN padded(huffman_code_bits(input))

\* string::serialize_raw_string
serialize_raw_string(input) ==
    hpack_serialize_uint(Len(input), 7, 0) \o input

\* the shortest input string::serialize_string runs through the Huffman code
HuffmanFrom == 16

\* string::serialize_string
serialize_string(input) ==
    LET coded(tmp) == hpack_serialize_uint(Len(tmp), 7, 128) \o tmp
    IN IF Len(input) < HuffmanFrom THEN serialize_raw_string(input)
       ELSE coded(huffman_encode(input))

\* the largest element of a non-empty set of numbers
SetMax(S) == CHOOSE x \in S : \A y \in S : y <= x

\* Seeker::seek_with_name: Seeker::new inserts the indices in rising order
\* and a later insert replaces the earlier one of the same name
Seeker_seek_with_name(name) ==
    LET hits == {idx \in 1..(RAW_TABLE_len - 1) :
                    RAW_TABLE[idx + 1].name = name}
    IN IF hits = {} THEN None ELSE Some(SetMax(hits))

\* Seeker::seek_with_name_value answering for the name alone
Seeker_seek_with_name_value_any(name, value) ==
    LET hits == {idx \in 1..(RAW_TABLE_len - 1) :
                    /\ RAW_TABLE[idx + 1].name = name
                    /\ RAW_TABLE[idx + 1].value /= None}
    IN IF hits = {} THEN None ELSE Some(SetMax(hits))

\* Seeker::seek_with_name_value: the entries with a value, each
\* (name, value) once
Seeker_seek_with_name_value(name, value) ==
    LET hits == {idx \in 1..(RAW_TABLE_len - 1) :
                    /\ RAW_TABLE[idx + 1].name = name
                    /\ RAW_TABLE[idx + 1].value = Some(value)}
    IN IF hits = {} THEN None ELSE Some(SetMax(hits))

(***************************************************************************)
(* frames.rs, settings.rs, error.rs: the frames of a connection.  A u32    *)
(* setting value is kept as its four octets, most significant first.       *)
(***************************************************************************)
\* settings::ALL_SETTING_KEYS; from_h2_id(id) is ALL_SETTING_KEYS[id]
ALL_SETTING_KEYS ==
    << "HeaderTableSize", "EnablePush", "MaxConcurrentStreams",
       "InitialWindowSize", "MaxFrameSize", "MaxHeaderListSize" >>

SettingKey_to_h2_id(key) ==
    CHOOSE id \in 1..Len(ALL_SETTING_KEYS) : ALL_SETTING_KEYS[id] = key

\* Settings::new: values[1..6] of the array, values[0] is a placeholder.
\* A u32 at or above 2^31 is written as the 32-bit two's complement number
\* with the same bits: u32::max_value() is -1
Settings_new ==
    [key \in {ALL_SETTING_KEYS[id] : id \in 1..Len(ALL_SETTING_KEYS)} |->
        CASE key = "HeaderTableSize" -> 4096
          [] key = "EnablePush" -> 1
          [] key = "MaxConcurrentStreams" -> 100
          [] key = "InitialWindowSize" -> 65535
          [] key = "MaxFrameSize" -> 16384
          [] key = "MaxHeaderListSize" -> -1]

\* the loop run from the last pair to the first: the first occurrence of a
\* key wins
RECURSIVE Settings_set_all_backwards(_, _)
Settings_set_all_backwards(whole, new_values) ==
    IF new_values = << >> THEN whole
    ELSE Settings_set_all_backwards(
             [whole EXCEPT ![new_values[Len(new_values)][1]] =
                               new_values[Len(new_values)][2]],
             SubSeq(new_values, 1, Len(new_values) - 1))

\* the loop `for (key, val) in new_values { whole.set(key, val) }`
RECURSIVE Settings_set_all(_, _)
Settings_set_all(whole, new_values) ==
    IF new_values = << >> THEN whole
    ELSE Settings_set_all(
             [whole EXCEPT ![Head(new_values)[1]] = Head(new_values)[2]],
             Tail(new_values))

\* error::ALL_ERRORS; from_h2_id(id) is ALL_ERRORS[id + 1]
ALL_ERRORS ==
    << "NoError", "ProtocolError", "InternalError", "FlowControlError",
       "SettingsTimeout", "StreamClosed", "FrameSizeError", "RefusedStream",
       "Cancel", "CompressionError", "ConnectError", "EnhanceYourCalm",
       "InadequateSecurity", "Http1Required" >>

ErrorCode_to_h2_id(code) ==
    (CHOOSE i \in 1..Len(ALL_ERRORS) : ALL_ERRORS[i] = code) - 1

\* serializers::serialize_uint: the last n octets of v, big-endian
RECURSIVE serializers_serialize_uint(_, _)
serializers_serialize_uint(v, n) ==
    IF n = 0 THEN << >>
    ELSE serializers_serialize_uint(v \div 256, n - 1) \o << v % 256 >>

\* the header FrameHeader::parse reads in front of body
ReceivedHeader(frame_type, flags, stream_id, body) ==
    [body_len |-> Len(body), frame_type |-> frame_type, flags |-> flags,
     stream_id |-> stream_id]

\* parse_uint::<u32>(buf, 4): a u32 at or above 2^31 is written as the
\* 32-bit two's complement number with the same bits, i.e. minus 2^32
parse_u32(buf) ==
    be_uint(<< buf[1] % 128, buf[2], buf[3], buf[4] >>)
    + (IF buf[1] >= 128 THEN -2147483647 - 1 ELSE 0)

\* FrameHeader::parse: Some(header), or None when the assert on the
\* length fails
FrameHeader_parse(buf) ==
    IF Len(buf) /= 9 THEN None
    ELSE Some([body_len |-> be_uint(SubSeq(buf, 1, 3)),
               frame_type |-> buf[4],
               flags |-> buf[5],
               stream_id |-> parse_u32(SubSeq(buf, 6, 9))])

\* FrameHeader::serialize
FrameHeader_serialize(h) ==
    serializers_serialize_uint(h.body_len, 3)
    \o << h.frame_type, h.flags >>
    \o serializers_serialize_uint(h.stream_id, 4)

\* the variants of Frame
Frame_Headers(f) == [type |-> "Headers", f |-> f]

Frame_Priority(my_stream_id, dep_stream_id, weight) ==
    [type |-> "Priority", my_stream_id |-> my_stream_id,
     dep_stream_id |-> dep_stream_id, weight |-> weight]

\* SettingsFrame::new
Frame_Settings(ack, values) ==
    [type |-> "Settings", ack |-> ack, values |-> values]

Frame_GoAway(last_stream_id, error_code, debug_info) ==
    [type |-> "GoAway", last_stream_id |-> last_stream_id,
     error_code |-> error_code, debug_info |-> debug_info]

\* the result of a parse: Ok(frame), Err(Error) or a panic
Parsed(ret) == [panic |-> FALSE, ret |-> ret]
ParsePanic == [panic |-> TRUE, ret |-> None]

\* PriorityFrame::parse
PriorityFrame_parse(header, body) ==
    IF header.stream_id = 0
    THEN Parsed(Error_new("ConnectionLevel", "ProtocolError",
                    "PriorityFrame must be associated with a stream"))
    ELSE IF Len(body) /= 5
    THEN Parsed(Error_new("StreamLevel", "FrameSizeError",
                    "PriorityFrame must has a body of length 5."))
    ELSE Parsed(Ok_frame(Frame_Priority(header.stream_id,
                    be_uint(SubSeq(body, 1, 4)), body[5])))

\* the loop putting each pair in front of the ones before it
RECURSIVE settings_values_newest_first(_)
settings_values_newest_first(body) ==
    LET identifier == be_uint(SubSeq(body, 1, 2))
        rest == settings_values_newest_first(SubSeq(body, 7, Len(body)))
    IN IF body = << >> THEN << >>
       ELSE IF identifier >= 1 /\ identifier <= 6
       THEN rest \o << << ALL_SETTING_KEYS[identifier],
                          parse_u32(SubSeq(body, 3, 6)) >> >>
       ELSE rest

\* the while loop of SettingsFrame::parse: identifiers outside 1..6 are
\* skipped
RECURSIVE settings_values(_)
settings_values(body) ==
    LET identifier == be_uint(SubSeq(body, 1, 2))
        rest == settings_values(SubSeq(body, 7, Len(body)))
    IN IF body = << >> THEN << >>
       ELSE IF identifier >= 1 /\ identifier <= 6
       THEN << << ALL_SETTING_KEYS[identifier],
                  parse_u32(SubSeq(body, 3, 6)) >> >>
            \o rest
       ELSE rest

\* SettingsFrame::parse
SettingsFrame_parse(header, body) ==
    IF header.frame_type /= 4 THEN ParsePanic
    ELSE IF header.stream_id /= 0
    THEN Parsed(Error_new("ConnectionLevel", "ProtocolError",
             "a SETTINGS frame can only be applied to the whole connection."))
    ELSE IF Len(body) % 6 /= 0
    THEN Parsed(Error_new("ConnectionLevel", "ProtocolError",
             "body length of a SETTINGS frame must be a multiple of 6 octets."))
    ELSE Parsed(Ok_frame(Frame_Settings(BitSet(header.flags, 0),
                                        settings_values(body))))

\* SettingsFrame::serialize
SettingsFrame_serialize(f) ==
    LET RECURSIVE values(_)
        values(vs) ==
            IF vs = << >> THEN << >>
            ELSE serializers_serialize_uint(SettingKey_to_h2_id(Head(vs)[1]), 2)
                 \o serializers_serialize_uint(Head(vs)[2], 4)
                 \o values(Tail(vs))
    IN FrameHeader_serialize(
           [body_len |-> 6 * Len(f.values), frame_type |-> 4,
            flags |-> IF f.ack THEN 1 ELSE 0, stream_id |-> 0])
       \o values(f.values)

\* GoAwayFrame::parse; parse_uint asserts the octets are there and
\* Code::from_h2_id asserts the code is known
GoAwayFrame_parse(header, body) ==
    IF header.frame_type /= 7 THEN ParsePanic
    ELSE IF header.stream_id /= 0
    THEN Parsed(Error_new("ConnectionLevel", "ProtocolError",
             "a GOAWAY frame can only be applied to the whole connection."))
    ELSE IF Len(body) < 8 THEN ParsePanic
    ELSE IF be_uint(SubSeq(body, 5, 8)) >= Len(ALL_ERRORS) THEN ParsePanic
    ELSE Parsed(Ok_frame(Frame_GoAway(parse_u32(SubSeq(body, 1, 4)),
                    ALL_ERRORS[be_uint(SubSeq(body, 5, 8)) + 1],
                    SubSeq(body, 9, Len(body)))))

\* GoAwayFrame::serialize: the header is written with body_len 0
GoAwayFrame_serialize(f) ==
    FrameHeader_serialize([body_len |-> 0, frame_type |-> 7, flags |-> 0,
                           stream_id |-> 0])
    \o serializers_serialize_uint(f.last_stream_id, 4)
    \o serializers_serialize_uint(ErrorCode_to_h2_id(f.error_code), 4)
    \o f.debug_info

\* Frame::parse: the decoder after the call and the result
Frame_parse(t, key, header, body) ==
    LET headers(h) ==
            IF h.panic THEN [t |-> h.t, panic |-> TRUE, ret |-> None]
            ELSE IF ~h.ret.ok THEN [t |-> h.t, panic |-> FALSE, ret |-> h.ret]
            ELSE [t |-> h.t, panic |-> FALSE,
                  ret |-> Ok_frame(Frame_Headers(Unwrap(h.ret.frame)))]
        other(p) == [t |-> t, panic |-> p.panic, ret |-> p.ret]
    IN CASE header.frame_type = 1 ->
                headers(ReceivedHeadersFrame_parse(t, key, header, body))
         [] header.frame_type = 2 -> other(PriorityFrame_parse(header, body))
         [] header.frame_type = 4 -> other(SettingsFrame_parse(header, body))
         [] header.frame_type = 7 -> other(GoAwayFrame_parse(header, body))
         [] OTHER ->
                other(Parsed(Error_new("ConnectionLevel", "ProtocolError",
                                       "unknown frame type")))

\* Frame::serialize
Frame_serialize(frame) ==
    CASE frame.type = "Settings" ->
            [panic |-> FALSE, out |-> SettingsFrame_serialize(frame)]
      [] frame.type = "GoAway" ->
            [panic |-> FALSE, out |-> GoAwayFrame_serialize(frame)]
      [] OTHER -> [panic |-> TRUE, out |-> << >>]

(***************************************************************************)
(* State.                                                                  *)
(*   dyntbl     the DynamicTable (of the Decoder, where there is one)      *)
(*   hashKey    the digest function in use                                 *)
(*   panicked   a call on dyntbl or the receive task has panicked          *)
(*   last       the last call made and what it returned                    *)
(*   inserted   history: the entries prepend accepted, oldest first        *)
(*   resized    history: update_capacity has been called                   *)
(*   enctbl     the DynamicTable of the Encoder                            *)
(*   wire       the encoded fields on their way to the Decoder             *)
(*   conn       the Connection: to_close, last_received_stream_id,         *)
(*              remote_h2_settings                                         *)
(*   sender     the bounded send queue (the channel behind conn.sender)    *)
(*   delayed    the frames whose try_send failed, each behind its timer    *)
(*   recv       where the receive task is                                  *)
(*   send       where the send task is, and the frame it is writing        *)
(*   socket_out the frames written to the transport, in order              *)
(*   hist       history: the frames passed to send_frame, the order they   *)
(*              entered the queue, the frames read and dispatched          *)
(***************************************************************************)
VARIABLES dyntbl, hashKey, panicked, last, inserted, resized,
          enctbl, wire, conn, sender, delayed, recv, send, socket_out, hist

tableVars == << dyntbl, hashKey, panicked, last, inserted, resized >>

codecVars == << enctbl, wire >>

connVars == << conn, sender, delayed, recv, send, socket_out, hist >>

vars == << tableVars, codecVars, connVars >>

\* no Encoder and no Connection exist
NoCodec ==
    /\ enctbl = None
    /\ wire = << >>

NoConn ==
    /\ conn = None
    /\ sender = << >>
    /\ delayed = {}
    /\ recv = "none"
    /\ send = None
    /\ socket_out = << >>
    /\ hist = None

Call(op, name, value, arg, ret) ==
    [op |-> op, name |-> name, value |-> value, arg |-> arg, ret |-> ret]

Init ==
    /\ \E cap \in Caps :
          /\ dyntbl = DynamicTable_with_capacity(cap)
          /\ last = Call("with_capacity", << >>, << >>, cap, None)
    /\ hashKey \in 0..(NumHashKeys - 1)
    /\ panicked = FALSE
    /\ inserted = << >>
    /\ resized = FALSE
    /\ NoCodec
    /\ NoConn

Prepend(name, value) ==
    /\ ~panicked
    /\ dyntbl.seq_id_gen < MaxPrepends
    /\ \E r \in {DynamicTable_prepend(dyntbl, hashKey, name, value)} :
          /\ dyntbl' = r.t
          /\ panicked' = r.panic
          /\ last' = Call("prepend", name, value, 0, r.ret)
          /\ inserted' = IF ~r.panic /\ r.ret /= None
                         THEN Append(inserted, << name, value >>)
                         ELSE inserted
    /\ UNCHANGED << hashKey, resized >>
    /\ UNCHANGED << codecVars, connVars >>

UpdateCapacity(new_cap) ==
    /\ ~panicked
    /\ \E r \in {DynamicTable_update_capacity(dyntbl, new_cap)} :
          /\ dyntbl' = r.t
          /\ panicked' = r.panic
          /\ last' = Call("update_capacity", << >>, << >>, new_cap, r.ret)
    /\ resized' = TRUE
    /\ UNCHANGED << hashKey, inserted >>
    /\ UNCHANGED << codecVars, connVars >>

Get(index) ==
    /\ ~panicked
    /\ \E r \in {DynamicTable_get(dyntbl, index)} :
          /\ panicked' = r.panic
          /\ last' = Call("get", << >>, << >>, index, r.ret)
    /\ UNCHANGED << dyntbl, hashKey, inserted, resized >>
    /\ UNCHANGED << codecVars, connVars >>

SeekWithName(name) ==
    /\ ~panicked
    /\ \E r \in {DynamicTable_seek_with_name(dyntbl, hashKey, name)} :
          /\ panicked' = r.panic
          /\ last' = Call("seek_with_name", name, << >>, 0, r.ret)
    /\ UNCHANGED << dyntbl, hashKey, inserted, resized >>
    /\ UNCHANGED << codecVars, connVars >>

SeekWithNameValue(name, value) ==
    /\ ~panicked
    /\ \E r \in {DynamicTable_seek_with_name_value(dyntbl, hashKey, name, value)} :
          /\ panicked' = r.panic
          /\ last' = Call("seek_with_name_value", name, value, 0, r.ret)
    /\ UNCHANGED << dyntbl, hashKey, inserted, resized >>
    /\ UNCHANGED << codecVars, connVars >>

Next ==
    \/ \E e \in Entries : Prepend(e[1], e[2])
    \/ \E new_cap \in Caps : UpdateCapacity(new_cap)
    \/ \E index \in 0..MaxGetIndex : Get(index)
    \/ \E name \in Names : SeekWithName(name)
    \/ \E e \in Entries : SeekWithNameValue(e[1], e[2])

Spec == Init /\ [][Next]_vars

(***************************************************************************)
(* The decoder, driven by header field representations and HEADERS frames. *)
(* dyntbl is the table of the Decoder, whose limit never changes.          *)
(***************************************************************************)
\* the integer v behind first-octet flags, as serialize_uint writes it
\* (v - prefix mask below 128)
UintOctets(flags, prefix_bits, v) ==
    IF v < (2 ^ prefix_bits) - 1 THEN << flags + v >>
    ELSE << flags + (2 ^ prefix_bits) - 1, v - ((2 ^ prefix_bits) - 1) >>

\* a string literal, raw or Huffman-coded (octets is then the code)
RawString(octets) == UintOctets(0, 7, Len(octets)) \o octets
HuffmanString(octets) == UintOctets(128, 7, Len(octets)) \o octets

Indexed(idx) == UintOctets(128, 7, idx)
SizeUpdate(size) == UintOctets(32, 5, size)

\* first-octet flags of the literal representations
WithIndexing == 64
WithoutIndexing == 0
NeverIndexing == 16

\* the prefix length of a literal representation
PrefixBits(flags) == IF flags = WithIndexing THEN 6 ELSE 4

LiteralNew(flags, name, value) ==
    UintOctets(flags, PrefixBits(flags), 0) \o name \o value

LiteralIndexedName(flags, idx, value) ==
    UintOctets(flags, PrefixBits(flags), idx) \o value

(***************************************************************************)
(* hpack::Encoder.  The encoder is its dynamic table; a field carries the  *)
(* hint of its EncoderField variant.                                       *)
(***************************************************************************)
EncoderField(hint, name, value) ==
    [hint |-> hint, name |-> name, value |-> value]

Encoder_with_capacity(cap) == DynamicTable_with_capacity(cap)

\* the first-octet flags and the prefix length a hint writes a literal with
HintFlags(hint) ==
    IF hint = "ToCache" THEN WithIndexing
    ELSE IF hint = "NotCache" THEN WithoutIndexing
    ELSE NeverIndexing

\* a position in the dynamic table as an index of the index space
dynamic_index(d) ==
    IF d.panic THEN [ret |-> None, panic |-> TRUE]
    ELSE IF d.ret = None THEN [ret |-> None, panic |-> FALSE]
    ELSE [ret |-> Some(RAW_TABLE_len + Unwrap(d.ret)), panic |-> FALSE]

\* the lookup of (name, value): the static table, then the dynamic table
Encoder_seek_with_name_value(t, key, name, value) ==
    LET s == Seeker_seek_with_name_value(name, value)
    IN IF s /= None THEN [ret |-> s, panic |-> FALSE]
       ELSE dynamic_index(
                DynamicTable_seek_with_name_value(t, key, name, value))

\* the lookup of the name alone: the static table, then the dynamic table
Encoder_seek_with_name(t, key, name) ==
    LET s == Seeker_seek_with_name(name)
    IN IF s /= None THEN [ret |-> s, panic |-> FALSE]
       ELSE dynamic_index(DynamicTable_seek_with_name(t, key, name))

\* Encoder::encode_header_field: the encoder after the call and the octets
\* appended to out.  A hit on (name, value) is written Indexed; otherwise
\* a literal in the form of the hint, its name by index where the name is
\* found, and hint ToCache prepends the field to the dynamic table
Encoder_encode_header_field(t, key, field) ==
    LET flags == HintFlags(field.hint)
        failed == [t |-> t, out |-> << >>, panic |-> TRUE]
        cached(p, out) == [t |-> p.t, out |-> out, panic |-> p.panic]
        written(out) ==
            IF field.hint = "ToCache"
            THEN cached(DynamicTable_prepend(t, key, field.name, field.value),
                        out)
            ELSE [t |-> t, out |-> out, panic |-> FALSE]
        literal(by_name) ==
            IF by_name.panic THEN failed
            ELSE IF by_name.ret /= None
            THEN written(hpack_serialize_uint(Unwrap(by_name.ret),
                                              PrefixBits(flags), flags)
                         \o serialize_string(field.value))
            ELSE written(hpack_serialize_uint(0, PrefixBits(flags), flags)
                         \o serialize_string(field.name)
                         \o serialize_string(field.value))
        indexed(full) ==
            IF full.panic THEN failed
            ELSE IF full.ret /= None
            THEN [t |-> t, panic |-> FALSE,
                  out |-> hpack_serialize_uint(Unwrap(full.ret), 7, 128)]
            ELSE literal(Encoder_seek_with_name(t, key, field.name))
    IN indexed(Encoder_seek_with_name_value(t, key, field.name, field.value))

\* "x" in the Huffman code, padded with ones
HuffmanX == << 243 >>

\* the index of "age" in the static table
IdxAge == 21

\* the capacities a Decoder is made with
DecoderCaps == {34, 70}

\* the indices tried: 0, static entries with and without a value, dynamic
\* entries that may exist, and one behind a two-octet integer
Indices == {0, 1, 2, 61, 62, 63, 64, 200}

Literals ==
    { LiteralNew(WithIndexing, RawString(NameA), RawString(ValueX)),
      LiteralNew(WithIndexing, RawString(NameB), HuffmanString(HuffmanX)),
      LiteralNew(WithIndexing, RawString(NameA), RawString(ValueLong)),
      LiteralIndexedName(WithIndexing, IdxAge, RawString(ValueX)),
      LiteralIndexedName(WithIndexing, 62, RawString(ValueMedium)),
      LiteralNew(WithoutIndexing, RawString(NameA), RawString(ValueX)),
      LiteralIndexedName(WithoutIndexing, 62, RawString(ValueX)),
      LiteralNew(NeverIndexing, RawString(NameA), RawString(ValueX)),
      LiteralIndexedName(NeverIndexing, IdxAge, HuffmanString(HuffmanX)) }

\* representations that end early or carry a broken Huffman code
Broken ==
    { << WithIndexing, 1 >>,
      LiteralNew(WithIndexing, RawString(NameA), HuffmanString(<< 0 >>)) }

SizeUpdates == { SizeUpdate(0), SizeUpdate(34) }

FieldInputs ==
    {Indexed(i) : i \in Indices} \cup Literals \cup Broken \cup SizeUpdates

\* header blocks of two representations
Blocks ==
    { a \o b :
        a \in { LiteralNew(WithIndexing, RawString(NameA), RawString(ValueX)),
                LiteralIndexedName(WithIndexing, IdxAge, RawString(ValueX)),
                SizeUpdate(34),
                Indexed(2),
                << >> },
        b \in { Indexed(62), Indexed(0), Indexed(1), Indexed(2), Indexed(63),
                << >> } }

END_STREAM == 1
END_HEADERS == 4
PADDED == 8
PRIORITY == 32

\* the body of a HEADERS frame: pad length, priority group, block, padding
FrameBody(flags, pad_len, block) ==
    (IF BitSet(flags, 3) THEN << pad_len >> ELSE << >>)
    \o (IF BitSet(flags, 5) THEN << 0, 0, 0, 3, 16 >> ELSE << >>)
    \o block
    \o (IF BitSet(flags, 3) THEN Rep(0, Min(pad_len, 2)) ELSE << >>)

Frame(flags, stream_id, body) ==
    [header |-> FrameHeader(flags, stream_id), body |-> body]

FrameInputs ==
    {Frame(END_HEADERS, 1, b) : b \in Blocks}
    \cup {Frame(f, sid, FrameBody(f, pad, Indexed(2) \o Indexed(62))) :
            f \in {END_HEADERS + END_STREAM, PADDED, PRIORITY + PADDED},
            sid \in {0, 1}, pad \in {1, 3}}
    \cup {Frame(f, 1, << >>) : f \in {END_HEADERS, PADDED, PRIORITY}}
    \cup {Frame(PADDED + PRIORITY, 1, << 1, 0, 0 >>)}

InitDecoder ==
    /\ \E cap \in DecoderCaps :
          /\ dyntbl = Decoder_with_capacity(cap)
          /\ last = Call("Decoder::with_capacity", << >>, << >>, cap, None)
    /\ hashKey \in 0..(NumHashKeys - 1)
    /\ panicked = FALSE
    /\ inserted = << >>
    /\ resized = FALSE
    /\ NoCodec
    /\ NoConn

ParseHeaderField(input) ==
    /\ ~panicked
    /\ dyntbl.seq_id_gen < MaxPrepends
    /\ \E f \in {parse_header_field(dyntbl, hashKey, input)} :
          /\ dyntbl' = f.t
          /\ panicked' = f.r.panic
          /\ last' = Call("parse_header_field", << >>, << >>, input, f.r)
          /\ inserted' = IF f.r.ok /\ f.t.seq_id_gen > dyntbl.seq_id_gen
                         THEN Append(inserted,
                                     << f.r.value.name, f.r.value.value >>)
                         ELSE inserted
    /\ UNCHANGED << hashKey, resized >>
    /\ UNCHANGED << codecVars, connVars >>

ParseHeadersFrame(frame) ==
    /\ ~panicked
    /\ dyntbl.seq_id_gen < MaxPrepends
    /\ \E f \in {ReceivedHeadersFrame_parse(dyntbl, hashKey,
                                            frame.header, frame.body)} :
          /\ dyntbl' = f.t
          /\ panicked' = f.panic
          /\ last' = Call("ReceivedHeadersFrame::parse", << >>, << >>,
                          frame, f.ret)
          /\ inserted' = inserted \o f.accepted
    /\ UNCHANGED << hashKey, resized >>
    /\ UNCHANGED << codecVars, connVars >>

NextDecoder ==
    \/ \E input \in FieldInputs : ParseHeaderField(input)
    \/ \E frame \in FrameInputs : ParseHeadersFrame(frame)

SpecDecoder == InitDecoder /\ [][NextDecoder]_vars

(***************************************************************************)
(* Views of the table used to state the properties.  They read the stored  *)
(* items directly and do not go through Cache::get.                        *)
(***************************************************************************)
RECURSIVE StoredItemsOf(_)
StoredItemsOf(blocks) ==
    IF blocks = << >> THEN << >>
    ELSE Head(blocks).items \o StoredItemsOf(Tail(blocks))

StoredItems(t) == StoredItemsOf(t.cache.blocks)

\* the ids start..end of seq_id_range
LiveIds(t) ==
    IF t.seq_id_range = None THEN {}
    ELSE t.seq_id_range[1] .. t.seq_id_range[2]

\* every live id is stored exactly once
LiveIdsStored(t) ==
    \A id \in LiveIds(t) :
        Cardinality({i \in 1..Len(StoredItems(t)) :
                        StoredItems(t)[i].seq_id = id}) = 1

\* the live entries as << name, value >> pairs, oldest first
LiveEntries(t) ==
    LET st == StoredItems(t)
        ids == LiveIds(t)
        at(id) == st[CHOOSE i \in 1..Len(st) : st[i].seq_id = id]
    IN IF ids = {} THEN << >>
       ELSE [k \in 1..Cardinality(ids) |->
                << at(t.seq_id_range[1] + k - 1).name,
                   at(t.seq_id_range[1] + k - 1).value >>]

RECURSIVE SumSizes(_)
SumSizes(es) ==
    IF es = << >> THEN 0
    ELSE h2_size(Head(es)[1], Head(es)[2]) + SumSizes(Tail(es))

\* the last k elements of a sequence
Suffix(s, k) == SubSeq(s, Len(s) - k + 1, Len(s))

\* the longest suffix of es whose total size is at most limit
LongestFittingSuffix(es, limit) ==
    LET ks == {k \in 0..Len(es) : SumSizes(Suffix(es, k)) <= limit}
    IN Suffix(es, CHOOSE k \in ks : \A j \in ks : j <= k)

(***************************************************************************)
(* An Encoder and a Decoder made with the same capacity: the fields are    *)
(* encoded one by one, and decoded in the same order.                      *)
(***************************************************************************)
\* encoded fields not yet decoded
MaxWire == 1

\* the capacities the pair is made with
CodecCaps == {40, 70}

Hints == {"ToCache", "NotCache", "NeverCache"}

\* index 2 of the static table, ":method: GET", and the name "age"
IdxMethodGet == 2
NameAge == RAW_TABLE[IdxAge + 1].name

\* the shortest value serialize_string writes in the Huffman code
ValueHuffman == Rep(122, HuffmanFrom)

\* new names, a name of the static table, a pair of the static table, a
\* value in the Huffman code
CodecFields ==
    { EncoderField(h, e[1], e[2]) :
        h \in Hints,
        e \in { << NameA, ValueX >>, << NameB, ValueX >>,
                << NameA, ValueHuffman >>, << NameAge, ValueX >>,
                << RAW_TABLE[IdxMethodGet + 1].name,
                   Unwrap(RAW_TABLE[IdxMethodGet + 1].value) >> } }

InitCodec ==
    /\ \E cap \in CodecCaps :
          /\ enctbl = Some(Encoder_with_capacity(cap))
          /\ dyntbl = Decoder_with_capacity(cap)
          /\ last = Call("with_capacity", << >>, << >>, cap, None)
    /\ wire = << >>
    /\ hashKey \in 0..(NumHashKeys - 1)
    /\ panicked = FALSE
    /\ inserted = << >>
    /\ resized = FALSE
    /\ NoConn

\* Encoder::encode_header_field; the octets travel with the field they
\* encode and with the entries of the encoder's table after the call
EncodeHeaderField(field) ==
    /\ ~panicked
    /\ Len(wire) < MaxWire
    /\ Unwrap(enctbl).seq_id_gen < MaxPrepends
    /\ \E e \in {Encoder_encode_header_field(Unwrap(enctbl), hashKey, field)} :
          /\ enctbl' = Some(e.t)
          /\ panicked' = e.panic
          /\ wire' = IF e.panic THEN wire
                     ELSE Append(wire, [field |-> field, octets |-> e.out,
                                        entries |-> LiveEntries(e.t)])
          /\ last' = Call("encode_header_field", field.name, field.value,
                          field, e.out)
    /\ UNCHANGED << dyntbl, hashKey, inserted, resized, connVars >>

\* Decoder::parse_header_field on the oldest encoded field
DecodeHeaderField ==
    /\ ~panicked
    /\ wire /= << >>
    /\ \E f \in {parse_header_field(dyntbl, hashKey, Head(wire).octets)} :
          /\ dyntbl' = f.t
          /\ panicked' = f.r.panic
          /\ last' = Call("decode_header_field", Head(wire).field.name,
                          Head(wire).field.value, Head(wire), f.r)
          /\ inserted' = IF f.r.ok /\ f.t.seq_id_gen > dyntbl.seq_id_gen
                         THEN Append(inserted,
                                     << f.r.value.name, f.r.value.value >>)
                         ELSE inserted
    /\ wire' = Tail(wire)
    /\ UNCHANGED << enctbl, hashKey, resized, connVars >>

NextCodec ==
    \/ \E field \in CodecFields : EncodeHeaderField(field)
    \/ DecodeHeaderField

SpecCodec == InitCodec /\ [][NextCodec]_vars

(***************************************************************************)
(* net.rs: a connection after handshake() has returned.  The receive task  *)
(* reads the preface, the first frame and then frame after frame; the send *)
(* task takes the frames out of the channel and writes them; a frame that  *)
(* found the channel full waits behind a timer.                            *)
(***************************************************************************)
\* cfg.sender_queue_size
QueueSize == 2

\* frames the receive task reads before the peer falls silent
MaxReceived == 3

\* cfg.my_h2_settings
ConfigSettings == { << << "MaxConcurrentStreams", 10 >> >> }

\* what read_frame finds on the transport: a frame, or the end of the input
ReadError == [eof |-> TRUE]

Received(frame_type, flags, stream_id, body) ==
    [eof |-> FALSE,
     header |-> ReceivedHeader(frame_type, flags, stream_id, body),
     body |-> body]

RecvSettings == Received(4, 0, 0, << 0, 3, 0, 0, 0, 7 >>)
RecvSettingsAck == Received(4, 1, 0, << >>)
RecvGoAway == Received(7, 0, 0, << 0, 0, 0, 1, 0, 0, 0, 0 >>)
RecvPriority == Received(2, 0, 3, << 0, 0, 0, 0, 16 >>)
RecvHeaders == Received(1, END_HEADERS, 1, Indexed(2))
RecvBadHeaders == Received(1, END_HEADERS, 1, Indexed(0))
RecvUnknown == Received(0, 0, 1, << >>)

RecvInputs ==
    { ReadError, RecvSettings, RecvSettingsAck, RecvGoAway, RecvPriority,
      RecvHeaders, RecvBadHeaders, RecvUnknown }

\* read_frame: the decoder after the call and Ok(frame), Err(Error) or a
\* panic; a failed read is a connection error with code ConnectError
read_frame(t, key, input) ==
    IF input.eof
    THEN [t |-> t, panic |-> FALSE,
          ret |-> Error_new("ConnectionLevel", "ConnectError",
                            "fail to read on connection")]
    ELSE Frame_parse(t, key, input.header, input.body)

\* send_frame dropping the frame that finds no room
send_frame_lossy(q, dly, open, item) ==
    IF open /\ Len(q) < QueueSize
    THEN [q |-> Append(q, item), delayed |-> dly, queued |-> TRUE]
    ELSE [q |-> q, delayed |-> dly, queued |-> FALSE]

\* send_frame: try_send puts the frame into the channel when the receiver
\* lives and a slot is free; otherwise the frame waits behind a timer that
\* calls send_frame again
send_frame(q, dly, open, item) ==
    IF open /\ Len(q) < QueueSize
    THEN [q |-> Append(q, item), delayed |-> dly, queued |-> TRUE]
    ELSE [q |-> q, delayed |-> dly \cup {item}, queued |-> FALSE]

\* the Receiver lives as long as the send task does
SendOpen == send.state \in {"idle", "writing"}

\* a call of send_frame(conn.sender.clone(), frame) and its trace in hist:
\* the frame, whether it found the channel full, and the number of the
\* received frame whose handling made the call (0 for the handshake)
Submit(frame, h) ==
    \E item \in {[id |-> Len(h.submitted) + 1, frame |-> frame]} :
    \E r \in {send_frame(sender, delayed, SendOpen, item)} :
       /\ sender' = r.q
       /\ delayed' = r.delayed
       /\ hist' = [h EXCEPT
              !.submitted = Append(@, [frame |-> frame, full |-> ~r.queued,
                                       cause |-> Len(h.received)]),
              !.enqueued = IF r.queued THEN Append(@, item.id) ELSE @]

InitConn ==
    /\ \E values \in ConfigSettings :
          /\ conn = [to_close |-> FALSE,
                     last_received_stream_id |-> 0,
                     my_h2_settings |-> Settings_set_all(Settings_new, values),
                     remote_h2_settings |-> Settings_new]
          /\ sender = << [id |-> 1, frame |-> Frame_Settings(FALSE, values)] >>
          /\ hist = [submitted |-> << [frame |-> Frame_Settings(FALSE, values),
                                      full |-> FALSE, cause |-> 0] >>,
                     enqueued |-> << 1 >>,
                     received |-> << >>,
                     dispatched |-> << >>,
                     write_failed |-> FALSE]
    /\ delayed = {}
    /\ recv = "read_preface"
    /\ send = [state |-> "idle"]
    /\ socket_out = << >>
    /\ dyntbl = Decoder_with_capacity(Settings_new["HeaderTableSize"])
    /\ hashKey = 0
    /\ panicked = FALSE
    /\ last = Call("handshake", << >>, << >>, QueueSize, None)
    /\ inserted = << >>
    /\ resized = FALSE
    /\ NoCodec

\* what the receive task has read, in which phase
Outcome(phase, input, p) ==
    [phase |-> phase, input |-> input, panic |-> p.panic, ret |-> p.ret]

\* read_preface: a mismatch or a failed read ends the receive task, the
\* error is logged
ReadPreface(result) ==
    /\ recv = "read_preface"
    /\ recv' = IF result = "ok" THEN "read_settings" ELSE "stopped"
    /\ hist' = [hist EXCEPT !.received =
                   IF result = "ok" THEN @
                   ELSE Append(@, Outcome("read_preface", result,
                            Parsed(Error_new("ConnectionLevel",
                                "ProtocolError", "HTTP/2 preface mismatch"))))]
    /\ UNCHANGED << tableVars, codecVars, conn, sender, delayed, send,
                    socket_out >>

\* the frame side of read_settings: a SETTINGS frame is applied, answered
\* with an ACK and dispatched; any other frame is unreachable!(); an error
\* ends the receive task and is logged.  Then comes the test of to_close on
\* entering receive_coroutine_continuation
ReadSettings(input, p) ==
    /\ recv = "read_settings"
    /\ IF p.panic \/ (p.ret.ok /\ Unwrap(p.ret.frame).type /= "Settings")
       THEN /\ recv' = "panicked"
            /\ panicked' = TRUE
            /\ hist' = [hist EXCEPT !.received =
                  Append(@, Outcome("read_settings", input,
                                    [panic |-> TRUE, ret |-> p.ret]))]
            /\ UNCHANGED << conn, sender, delayed >>
       ELSE IF ~p.ret.ok
       THEN /\ recv' = "stopped"
            /\ hist' = [hist EXCEPT !.received =
                  Append(@, Outcome("read_settings", input, p))]
            /\ UNCHANGED << conn, sender, delayed, panicked >>
       ELSE /\ conn' = [conn EXCEPT !.remote_h2_settings =
                  Settings_set_all(@, Unwrap(p.ret.frame).values)]
            /\ Submit(Frame_Settings(TRUE, << >>),
                  [hist EXCEPT
                     !.received = Append(@, Outcome("read_settings",
                                                    input, p)),
                     !.dispatched = Append(@, Unwrap(p.ret.frame))])
            /\ recv' = IF conn.to_close THEN "stopped" ELSE "continuation"
            /\ UNCHANGED panicked

\* the frame side of receive_coroutine_continuation: the frame read_frame
\* delivers is acted on and dispatched, an error is answered with GOAWAY;
\* then to_close decides whether the next read is started
ReceiveFrame(input, p) ==
    /\ recv = "continuation"
    /\ IF p.panic
       THEN /\ recv' = "panicked"
            /\ panicked' = TRUE
            /\ hist' = [hist EXCEPT !.received =
                  Append(@, Outcome("continuation", input, p))]
            /\ UNCHANGED << conn, sender, delayed >>
       ELSE IF ~p.ret.ok
       THEN /\ Submit(Frame_GoAway(conn.last_received_stream_id,
                                   "ConnectError", << >>),
                  [hist EXCEPT !.received =
                      Append(@, Outcome("continuation", input, p))])
            /\ recv' = "stopped"
            /\ UNCHANGED << conn, panicked >>
       ELSE \E frame \in {Unwrap(p.ret.frame)} :
            \E h \in {[hist EXCEPT
                        !.received = Append(@, Outcome("continuation",
                                                       input, p)),
                        !.dispatched = Append(@, frame)]} :
               /\ IF frame.type = "Settings" /\ ~frame.ack
                  THEN /\ conn' = [conn EXCEPT !.remote_h2_settings =
                              Settings_set_all(@, frame.values)]
                       /\ Submit(Frame_Settings(TRUE, << >>), h)
                  ELSE IF frame.type = "GoAway"
                  THEN /\ Submit(Frame_GoAway(conn.last_received_stream_id,
                                              "NoError", << >>), h)
                       /\ UNCHANGED conn
                  ELSE /\ hist' = h
                       /\ UNCHANGED << conn, sender, delayed >>
               /\ recv' = IF conn.to_close THEN "stopped" ELSE "continuation"
               /\ UNCHANGED panicked

\* read_frame completes in the receive task, in read_settings or in
\* receive_coroutine_continuation
ReadFrame(input) ==
    /\ Len(hist.received) < MaxReceived
    /\ \E p \in {read_frame(dyntbl, hashKey, input)} :
          /\ dyntbl' = p.t
          /\ \/ ReadSettings(input, p)
             \/ ReceiveFrame(input, p)
    /\ UNCHANGED << hashKey, last, inserted, resized, codecVars, send,
                    socket_out >>

\* the timer of a waiting frame fires and send_frame runs again; a frame
\* that still finds no room waits on
TrySendAgain(item) ==
    /\ item \in delayed
    /\ \E r \in {send_frame(sender, delayed \ {item}, SendOpen, item)} :
          /\ r.q /= sender \/ r.delayed /= delayed
          /\ sender' = r.q
          /\ delayed' = r.delayed
          /\ hist' = [hist EXCEPT !.enqueued =
                         IF r.queued THEN Append(@, item.id) ELSE @]
    /\ UNCHANGED << tableVars, codecVars, conn, recv, send, socket_out >>

\* the frame the send task takes out of a channel that hands out its
\* newest frame
chan_recv_newest(q) == [frame |-> q[Len(q)], q |-> SubSeq(q, 1, Len(q) - 1)]

\* rx.into_future(): the oldest frame of the channel and the channel
\* without it
chan_recv(q) == [frame |-> Head(q), q |-> Tail(q)]

\* start_send_coroutine up to write_all without the store to to_close that
\* a GOAWAY makes
Dequeue_not_closing ==
    /\ send.state = "idle"
    /\ sender /= << >>
    /\ \E got \in {chan_recv(sender)} :
          /\ sender' = got.q
          /\ IF conn.to_close
             THEN /\ send' = [state |-> "stopped"]
                  /\ UNCHANGED << conn, panicked >>
             ELSE \E buf \in {Frame_serialize(got.frame.frame)} :
                     /\ UNCHANGED conn
                     /\ send' = IF buf.panic THEN [state |-> "panicked"]
                                ELSE [state |-> "writing", item |-> got.frame,
                                      buf |-> buf.out]
                     /\ panicked' = (panicked \/ buf.panic)
    /\ UNCHANGED << dyntbl, hashKey, last, inserted, resized, codecVars,
                    delayed, recv, socket_out, hist >>

\* start_send_coroutine up to write_all: the oldest frame leaves the
\* channel; it is dropped when to_close is set, a GOAWAY sets to_close
Dequeue ==
    /\ send.state = "idle"
    /\ sender /= << >>
    /\ \E got \in {chan_recv(sender)} :
          /\ sender' = got.q
          /\ IF conn.to_close
             THEN /\ send' = [state |-> "stopped"]
                  /\ UNCHANGED << conn, panicked >>
             ELSE \E buf \in {Frame_serialize(got.frame.frame)} :
                     /\ conn' = [conn EXCEPT !.to_close =
                                   @ \/ got.frame.frame.type = "GoAway"]
                     /\ send' = IF buf.panic THEN [state |-> "panicked"]
                                ELSE [state |-> "writing", item |-> got.frame,
                                      buf |-> buf.out]
                     /\ panicked' = (panicked \/ buf.panic)
    /\ UNCHANGED << dyntbl, hashKey, last, inserted, resized, codecVars,
                    delayed, recv, socket_out, hist >>

\* write_all returns: the frame is on the transport and the send task goes
\* on unless to_close is set, or the write has failed and to_close is set
WriteAll(ok) ==
    /\ send.state = "writing"
    /\ IF ok
       THEN /\ socket_out' = Append(socket_out,
                                    [id |-> send.item.id,
                                     frame |-> send.item.frame,
                                     octets |-> send.buf])
            /\ send' = IF conn.to_close THEN [state |-> "stopped"]
                       ELSE [state |-> "idle"]
            /\ UNCHANGED << conn, hist >>
       ELSE /\ conn' = [conn EXCEPT !.to_close = TRUE]
            /\ send' = [state |-> "stopped"]
            /\ hist' = [hist EXCEPT !.write_failed = TRUE]
            /\ UNCHANGED socket_out
    /\ UNCHANGED << tableVars, codecVars, sender, delayed, recv >>

NextConn ==
    \/ \E result \in {"ok", "mismatch"} : ReadPreface(result)
    \/ \E input \in RecvInputs : ReadFrame(input)
    \/ \E item \in delayed : TrySendAgain(item)
    \/ Dequeue
    \/ \E ok \in BOOLEAN : WriteAll(ok)

SpecConn == InitConn /\ [][NextConn]_vars

\* Connection::async_disconnect: the application sets to_close at any time
AsyncDisconnect ==
    /\ ~conn.to_close
    /\ conn' = [conn EXCEPT !.to_close = TRUE]
    /\ UNCHANGED << tableVars, codecVars, sender, delayed, recv, send,
                    socket_out, hist >>

NextConnClose ==
    \/ NextConn
    \/ AsyncDisconnect

\* the connection with an application that may disconnect
SpecConnClose == InitConn /\ [][NextConnClose]_vars

(***************************************************************************)
(* frames.rs as pure functions: every call is recorded in last.            *)
(***************************************************************************)
\* the 9 octets of frame headers: body length, type, flags, stream id
\* with and without the reserved bit
HeaderOctets ==
    { << 0, 0, len, frame_type, flags, top, 0, 0, low >> :
         len \in {0, 6}, frame_type \in {1, 2, 4, 7}, flags \in {0, 1},
         top \in {0, 127, 128, 255}, low \in {0, 1} }

\* stream ids of the headers the endpoint builds, as u32
StreamIds == { 0, 1, 2147483647, -2147483647 - 1, -1 }

HeadersToSerialize ==
    { [body_len |-> len, frame_type |-> frame_type, flags |-> 0,
       stream_id |-> stream_id] :
         len \in {0, 6}, frame_type \in {4, 7}, stream_id \in StreamIds }

InitFrames ==
    /\ dyntbl = Decoder_with_capacity(Settings_new["HeaderTableSize"])
    /\ hashKey = 0
    /\ panicked = FALSE
    /\ last = Call("none", << >>, << >>, None, None)
    /\ inserted = << >>
    /\ resized = FALSE
    /\ NoCodec
    /\ NoConn

\* a frame as it stands on the transport: the 9 octets of the header
\* announcing the length of the body, and the body
WireFrame(frame_type, flags, stream, body) ==
    [header |-> serializers_serialize_uint(Len(body), 3)
                \o << frame_type, flags >> \o stream,
     body |-> body]

\* bodies from empty to two SETTINGS pairs: too short for a PRIORITY or
\* GOAWAY frame, a priority group, SETTINGS pairs, GOAWAY with the codes
\* 0, 13, 14 and 256 and with debug data, an indexed header field
WireBodies ==
    { << >>, << 0, 0, 0 >>, << 0, 0, 0, 1 >>, << 0, 0, 0, 0, 16 >>,
      << 0, 3, 0, 0, 0, 7 >>,
      << 0, 0, 0, 1, 0, 0, 0, 0 >>, << 0, 0, 0, 1, 0, 0, 0, 13 >>,
      << 0, 0, 0, 1, 0, 0, 0, 14 >>, << 0, 0, 0, 1, 0, 0, 1, 0 >>,
      << 0, 0, 0, 1, 0, 0, 0, 2, 104, 105 >>,
      << 0, 3, 0, 0, 0, 7, 0, 4, 0, 0, 0, 9 >>,
      Indexed(2) }

WireFrames ==
    { WireFrame(frame_type, flags, stream, body) :
         frame_type \in {0, 1, 2, 4, 7},
         flags \in {0, 1, PADDED, PADDED + PRIORITY},
         stream \in { << 0, 0, 0, 0 >>, << 0, 0, 0, 1 >> },
         body \in WireBodies }

\* SettingsFrame values: the length of the list of pairs
MaxSettingsValues == 2

\* u32 values: 0x12345678 and u32::max_value()
SettingValues == { 305419896, -1 }

RECURSIVE SettingsLists(_)
SettingsLists(n) ==
    IF n = 0 THEN { << >> }
    ELSE SettingsLists(n - 1)
         \cup { Append(vs, << key, v >>) :
                   vs \in SettingsLists(n - 1),
                   key \in {"HeaderTableSize", "MaxConcurrentStreams",
                            "MaxHeaderListSize"},
                   v \in SettingValues }

SettingsFrames ==
    { Frame_Settings(ack, vs) :
         ack \in BOOLEAN, vs \in SettingsLists(MaxSettingsValues) }

ParseFrameHeader(buf) ==
    /\ last.op = "none"
    /\ last' = Call("FrameHeader::parse", << >>, << >>, buf,
                    FrameHeader_parse(buf))
    /\ panicked' = (FrameHeader_parse(buf) = None)
    /\ UNCHANGED << dyntbl, hashKey, inserted, resized, codecVars,
                    connVars >>

SerializeFrameHeader(h) ==
    /\ last.op = "none"
    /\ last' = Call("FrameHeader::serialize", << >>, << >>, h,
                    FrameHeader_serialize(h))
    /\ panicked' = FALSE
    /\ UNCHANGED << dyntbl, hashKey, inserted, resized, codecVars,
                    connVars >>

\* read_frame after the reads: FrameHeader::parse of the 9 octets, then
\* Frame::parse of the header and the body
ParseFrame(w) ==
    /\ last.op = "none"
    /\ \E r \in {Frame_parse(dyntbl, hashKey,
                              Unwrap(FrameHeader_parse(w.header)), w.body)} :
          /\ dyntbl' = r.t
          /\ panicked' = r.panic
          /\ last' = Call("Frame::parse", << >>, << >>, w, r.ret)
    /\ UNCHANGED << hashKey, inserted, resized, codecVars, connVars >>

\* test::settingsframe_serde: serialize, FrameHeader::parse of the first
\* 9 octets, SettingsFrame::parse of the header and the rest
SerializeParseSettings(f) ==
    /\ last.op = "none"
    /\ \E buf \in {SettingsFrame_serialize(f)} :
       \E r \in {SettingsFrame_parse(
                    Unwrap(FrameHeader_parse(SubSeq(buf, 1, 9))),
                    SubSeq(buf, 10, Len(buf)))} :
          /\ panicked' = r.panic
          /\ last' = Call("settingsframe_serde", << >>, buf, f, r.ret)
    /\ UNCHANGED << dyntbl, hashKey, inserted, resized, codecVars,
                    connVars >>

\* the GOAWAY frames to serialize
GoAwayFrames ==
    { Frame_GoAway(last_stream_id, error_code, debug_info) :
         last_stream_id \in {0, 1, 2147483647},
         error_code \in {ALL_ERRORS[1], ALL_ERRORS[2], ALL_ERRORS[Len(ALL_ERRORS)]},
         debug_info \in {<< >>, << 97 >>, << 97, 98, 99 >>} }

\* Frame::serialize of a SETTINGS or a GOAWAY frame
SerializeFrame(frame) ==
    /\ last.op = "none"
    /\ \E r \in {Frame_serialize(frame)} :
          /\ panicked' = r.panic
          /\ last' = Call("Frame::serialize", << >>, r.out, frame, None)
    /\ UNCHANGED << dyntbl, hashKey, inserted, resized, codecVars,
                    connVars >>

NextFrames ==
    \/ \E buf \in HeaderOctets : ParseFrameHeader(buf)
    \/ \E h \in HeadersToSerialize : SerializeFrameHeader(h)
    \/ \E w \in WireFrames : ParseFrame(w)
    \/ \E f \in SettingsFrames : SerializeParseSettings(f)
    \/ \E frame \in SettingsFrames \cup GoAwayFrames : SerializeFrame(frame)

SpecFrames == InitFrames /\ [][NextFrames]_vars

(***************************************************************************)
(* The receive task fed with SETTINGS frames only: one read by             *)
(* read_settings, the next by receive_coroutine_continuation.              *)
(***************************************************************************)
\* SETTINGS frames the peer sends
MaxSettingsFrames == 2

\* identifier (2 octets) and value (4 octets) pairs of a SETTINGS body:
\* MaxConcurrentStreams twice, InitialWindowSize, and the unknown
\* identifier 0x0107
SettingsPairs ==
    { << 0, 3, 0, 0, 0, 7 >>, << 0, 3, 0, 0, 0, 9 >>,
      << 0, 4, 0, 0, 0, 7 >>, << 1, 7, 0, 0, 0, 9 >> }

SettingsBodies ==
    {<< >>} \cup SettingsPairs
    \cup { a \o b : a \in SettingsPairs, b \in SettingsPairs }

SettingsInputs ==
    { Received(4, 0, 0, body) : body \in SettingsBodies }
    \cup { Received(4, 1, 0, << 0, 3, 0, 0, 0, 9 >>) }

NextSettings ==
    \/ \E result \in {"ok"} : ReadPreface(result)
    \/ \E input \in SettingsInputs :
          /\ Len(hist.received) < MaxSettingsFrames
          /\ ReadFrame(input)

SpecSettings == InitConn /\ [][NextSettings]_vars

(***************************************************************************)
(* C1: in every state a returned prepend or update_capacity leaves the     *)
(* table in, the sizes len(name) + len(value) + 32 of the live entries sum *)
(* to at most the limit, and h2_used_size is that sum.                     *)
(***************************************************************************)
C1_SizeWithinLimit ==
    ~panicked =>
        /\ LiveIdsStored(dyntbl)
        /\ SumSizes(LiveEntries(dyntbl)) <= dyntbl.h2_limit_size
        /\ dyntbl.h2_used_size = SumSizes(LiveEntries(dyntbl))

\* a limit decrease has evicted one of two entries and kept the other
C1_Witness ==
    /\ ~panicked
    /\ last.op = "update_capacity"
    /\ Len(inserted) = 2
    /\ DynamicTable_len(dyntbl) = 1
    /\ dyntbl.h2_used_size > 0

(***************************************************************************)
(* C2: while the limit stays the one given to with_capacity, the live      *)
(* entries are the last len() accepted entries, get(0) is the newest, and  *)
(* get(i) the i-th newest for every i < len().                             *)
(***************************************************************************)
C2_LiveIsSuffixOfInserted ==
    (~panicked /\ ~resized) =>
        LET k == DynamicTable_len(dyntbl)
            n == Len(inserted)
        IN /\ k <= n
           /\ LiveEntries(dyntbl) = Suffix(inserted, k)
           /\ \A i \in 0..(k - 1) :
                 LET r == DynamicTable_get(dyntbl, i)
                 IN /\ ~r.panic
                    /\ r.ret = Some([name |-> inserted[n - i][1],
                                     value |-> inserted[n - i][2],
                                     index |-> i])

\* three entries were accepted, the oldest was evicted, get(1) was called
C2_Witness ==
    /\ ~panicked /\ ~resized
    /\ Len(inserted) = 3
    /\ DynamicTable_len(dyntbl) = 2
    /\ last.op = "get" /\ last.arg = 1 /\ last.ret /= None

(***************************************************************************)
(* C3: prepending an entry whose size exceeds the limit returns None and   *)
(* leaves the table empty, whatever the table held, and the call returns.  *)
(***************************************************************************)
C3_OversizePrependEmpties ==
    (last.op = "prepend" /\ h2_size(last.name, last.value) > dyntbl.h2_limit_size) =>
        /\ ~panicked
        /\ last.ret = None
        /\ DynamicTable_len(dyntbl) = 0
        /\ dyntbl.h2_used_size = 0

(***************************************************************************)
(* C4: update_capacity(n) returns and leaves the longest suffix (newest    *)
(* entries) of the live entries whose sizes sum to at most n: it evicts    *)
(* oldest first, no more than needed, and an increase restores nothing.    *)
(***************************************************************************)
C4_UpdateCapacityEvictsOldest ==
    [][last'.op = "update_capacity" =>
          /\ ~panicked'
          /\ LiveEntries(dyntbl') =
                LongestFittingSuffix(LiveEntries(dyntbl), last'.arg)]_vars

(***************************************************************************)
(* C5: get(i) returns an entry exactly when i < len() and None otherwise,  *)
(* without failing, in every table state.                                  *)
(***************************************************************************)
C5_GetIsTotal ==
    last.op = "get" =>
        /\ ~panicked
        /\ (last.ret /= None) <=> (last.arg < DynamicTable_len(dyntbl))

(***************************************************************************)
(* C6: when live entries match, seek_with_name and seek_with_name_value    *)
(* return the smallest index (the newest entry) among the matches.         *)
(***************************************************************************)
MatchingIndices(t, name, value, with_value) ==
    LET es == LiveEntries(t)
    IN {Len(es) - k : k \in {j \in 1..Len(es) :
            /\ es[j][1] = name
            /\ (with_value => es[j][2] = value)}}

SetMin(S) == CHOOSE x \in S : \A y \in S : x <= y

C6_SeekReturnsNewest ==
    /\ (/\ last.op = "seek_with_name"
        /\ MatchingIndices(dyntbl, last.name, last.value, FALSE) /= {}) =>
           /\ ~panicked
           /\ last.ret = Some(SetMin(MatchingIndices(dyntbl, last.name,
                                                     last.value, FALSE)))
    /\ (/\ last.op = "seek_with_name_value"
        /\ MatchingIndices(dyntbl, last.name, last.value, TRUE) /= {}) =>
           /\ ~panicked
           /\ last.ret = Some(SetMin(MatchingIndices(dyntbl, last.name,
                                                     last.value, TRUE)))

(***************************************************************************)
(* Views of the decoder's calls.                                           *)
(***************************************************************************)
\* the live entry at dynamic index k, 0 being the newest
LiveAt(t, k) == LiveEntries(t)[Len(LiveEntries(t)) - k]

\* the last call parsed an unpadded HEADERS frame on stream 1 with that block
ParsedBlock(block) ==
    /\ last.op = "ReceivedHeadersFrame::parse"
    /\ last.arg = Frame(END_HEADERS, 1, block)

\* the literals with incremental indexing of Blocks with the field they carry
IndexingLiterals ==
    { << LiteralNew(WithIndexing, RawString(NameA), RawString(ValueX)),
         NameA, ValueX >>,
      << LiteralIndexedName(WithIndexing, IdxAge, RawString(ValueX)),
         RAW_TABLE[IdxAge + 1].name, ValueX >> }

(***************************************************************************)
(* C7: a HEADERS block of a literal with incremental indexing whose entry  *)
(* is no larger than the table's limit, followed by Indexed 62, decodes to *)
(* the literal's field twice: the entry was inserted as dynamic entry 0.   *)
(***************************************************************************)
C7_InsertedEntryIsIndex62 ==
    \A l \in IndexingLiterals :
        (/\ ParsedBlock(l[1] \o Indexed(62))
         /\ h2_size(l[2], l[3]) <= dyntbl.h2_limit_size) =>
            /\ ~panicked
            /\ last.ret.ok
            /\ Unwrap(last.ret.frame).header_block =
                   << DecodeResult_Normal(l[2], l[3]),
                      DecodeResult_Normal(l[2], l[3]) >>
            /\ LiveAt(dyntbl, 0) = << l[2], l[3] >>

(***************************************************************************)
(* C8: in every decoder state, index i in 1..61 resolves to static entry i *)
(* whatever the dynamic table holds, index i >= 62 below 62 + len() to the *)
(* live entry i - 62 counted from the newest, and index i >= 62 + len() is *)
(* an error; an Indexed representation decodes accordingly.                *)
(***************************************************************************)
C8_IndexResolution ==
    ~panicked =>
        /\ \A i \in 1..(RAW_TABLE_len + MaxPrepends + 1) :
              LET e == get_from_index_table(dyntbl, i)
                  n == DynamicTable_len(dyntbl)
              IN /\ i < RAW_TABLE_len =>
                       /\ e.ok
                       /\ e.value.name = RAW_TABLE[i + 1].name
                       /\ e.value.value = RAW_TABLE[i + 1].value
                 /\ (i >= RAW_TABLE_len /\ i < RAW_TABLE_len + n) =>
                       /\ e.ok
                       /\ e.value.name = LiveAt(dyntbl, i - RAW_TABLE_len)[1]
                       /\ e.value.value =
                              Some(LiveAt(dyntbl, i - RAW_TABLE_len)[2])
                 /\ i >= RAW_TABLE_len + n => (~e.ok /\ ~e.panic)
        /\ \A i \in {j \in Indices : j >= RAW_TABLE_len} :
              (last.op = "parse_header_field" /\ last.arg = Indexed(i)) =>
                 IF i < RAW_TABLE_len + DynamicTable_len(dyntbl)
                 THEN /\ last.ret.ok
                      /\ last.ret.rem = << >>
                      /\ last.ret.value =
                            DecodeResult_Normal(
                                LiveAt(dyntbl, i - RAW_TABLE_len)[1],
                                LiveAt(dyntbl, i - RAW_TABLE_len)[2])
                 ELSE ~last.ret.ok /\ last.ret.err = ErrIndex

\* Indexed 63 was decoded with two different live entries and gave the older
C8_Witness ==
    /\ ~panicked
    /\ last.op = "parse_header_field"
    /\ last.arg = Indexed(63)
    /\ last.ret.ok
    /\ DynamicTable_len(dyntbl) = 2
    /\ LiveAt(dyntbl, 0) /= LiveAt(dyntbl, 1)
    /\ last.ret.value.name = LiveAt(dyntbl, 1)[1]
    /\ last.ret.value.value = LiveAt(dyntbl, 1)[2]

(***************************************************************************)
(* C9: an Indexed representation whose index is 0, is beyond the static    *)
(* and dynamic tables, or addresses a static entry without a value, fails: *)
(* parse_header_field returns an error, a HEADERS frame carrying it fails  *)
(* connection-level with CompressionError and yields no frame, and the     *)
(* dynamic table stays as it was.                                          *)
(***************************************************************************)
BadIndex(t, i) ==
    \/ i = 0
    \/ i >= RAW_TABLE_len + DynamicTable_len(t)
    \/ i < RAW_TABLE_len /\ RAW_TABLE[i + 1].value = None

C9_BadIndexIsCompressionError ==
    [][\A i \in Indices :
          BadIndex(dyntbl, i) =>
             /\ (last'.op = "parse_header_field" /\ last'.arg = Indexed(i)) =>
                   /\ ~panicked'
                   /\ ~last'.ret.ok
                   /\ last'.ret.err \in {ErrIndex, ErrNoValue}
                   /\ dyntbl' = dyntbl
             /\ \A pre \in {<< >>, Indexed(2)} :
                   (/\ last'.op = "ReceivedHeadersFrame::parse"
                    /\ last'.arg = Frame(END_HEADERS, 1, pre \o Indexed(i))) =>
                       /\ ~panicked'
                       /\ ~last'.ret.ok
                       /\ last'.ret.frame = None
                       /\ last'.ret.level = "ConnectionLevel"
                       /\ last'.ret.code = "CompressionError"
                       /\ dyntbl' = dyntbl]_vars

\* a frame whose block is Indexed 0 was refused while the table held an entry
C9_Witness ==
    /\ ParsedBlock(Indexed(0))
    /\ ~panicked
    /\ ~last.ret.ok
    /\ last.ret.code = "CompressionError"
    /\ DynamicTable_len(dyntbl) = 1

\* C9 as stated: index 0 fails with ProtocolError
C9_IndexZeroIsProtocolError ==
    ParsedBlock(Indexed(0)) =>
        /\ ~last.ret.ok
        /\ last.ret.code = "ProtocolError"

(***************************************************************************)
(* C10: a Dynamic Table Size Update makes its integer the limit of the     *)
(* dynamic table and yields no field, and the block after it is decoded.   *)
(***************************************************************************)
C10_SizeUpdateSetsLimit ==
    /\ \A n \in {0, 34} :
          (last.op = "parse_header_field" /\ last.arg = SizeUpdate(n)) =>
             /\ ~panicked
             /\ dyntbl.h2_limit_size = n
             /\ dyntbl.h2_used_size <= n
    /\ ParsedBlock(SizeUpdate(34) \o Indexed(2)) =>
          /\ ~panicked
          /\ last.ret.ok
          /\ dyntbl.h2_limit_size = 34
          /\ Unwrap(last.ret.frame).header_block =
                 << DecodeResult_Normal(RAW_TABLE[3].name,
                                        Unwrap(RAW_TABLE[3].value)) >>

(***************************************************************************)
(* C11: decoding an Indexed, a Literal-Without-Indexing or a               *)
(* Literal-Never-Indexed representation returns and leaves the dynamic     *)
(* table as it was (entries, order, length, used size); a call of          *)
(* parse_header_field that changes the table decoded a                     *)
(* Literal-With-Incremental-Indexing.                                      *)
(***************************************************************************)
\* the first octet is that of an Indexed, Without-Indexing or Never-Indexed
\* representation
NonIndexing(input) ==
    /\ input /= << >>
    /\ \/ check_prefix(Head(input), 128, 128)
       \/ check_prefix(Head(input), 240, WithoutIndexing)
       \/ check_prefix(Head(input), 240, NeverIndexing)

C11_OnlyIncrementalIndexingInserts ==
    [][last'.op = "parse_header_field" =>
          /\ NonIndexing(last'.arg) =>
                /\ ~panicked'
                /\ dyntbl' = dyntbl
                /\ LiveEntries(dyntbl') = LiveEntries(dyntbl)
                /\ DynamicTable_len(dyntbl') = DynamicTable_len(dyntbl)
                /\ dyntbl'.h2_used_size = dyntbl.h2_used_size
          /\ dyntbl' /= dyntbl =>
                check_prefix(Head(last'.arg), 192, WithIndexing)]_vars

\* a literal without indexing was decoded while the table held an entry
C11_Witness ==
    /\ last.op = "parse_header_field"
    /\ last.arg = LiteralNew(WithoutIndexing, RawString(NameA), RawString(ValueX))
    /\ last.ret.ok
    /\ last.ret.value = DecodeResult_Normal(NameA, ValueX)
    /\ DynamicTable_len(dyntbl) = 1

(***************************************************************************)
(* C12: every field an Encoder encodes with hint ToCache, NotCache or      *)
(* NeverCache is decoded, by a Decoder made with the same capacity and fed *)
(* in the same order, to the same name and value, as NeverIndex for        *)
(* NeverCache and as Normal otherwise, and after each field the decoder's  *)
(* dynamic table holds the entries the encoder's table held after encoding *)
(* that field.                                                             *)
(***************************************************************************)
C12_EncoderDecoderSymmetry ==
    /\ last.op = "encode_header_field" => ~panicked
    /\ last.op = "decode_header_field" =>
          /\ last.ret.ok
          /\ last.ret.rem = << >>
          /\ last.ret.value.name = last.arg.field.name
          /\ last.ret.value.value = last.arg.field.value
          /\ last.ret.value.kind =
                 IF last.arg.field.hint = "NeverCache" THEN "NeverIndex"
                 ELSE "Normal"
          /\ LiveEntries(dyntbl) = last.arg.entries

(***************************************************************************)
(* C19: the send task writes the frames to the transport in exactly the    *)
(* order they entered the queue, one complete frame at a time: what is on  *)
(* the transport is the serialization of a prefix of the queue-entry       *)
(* order, and a frame being written is the next of that order.             *)
(***************************************************************************)
C19_WritesInQueueOrder ==
    /\ Len(socket_out) <= Len(hist.enqueued)
    /\ \A i \in 1..Len(socket_out) :
          /\ socket_out[i].id = hist.enqueued[i]
          /\ socket_out[i].frame = hist.submitted[socket_out[i].id].frame
          /\ socket_out[i].octets = Frame_serialize(socket_out[i].frame).out
    /\ send.state = "writing" =>
          /\ Len(socket_out) < Len(hist.enqueued)
          /\ send.item.id = hist.enqueued[Len(socket_out) + 1]

\* a frame that had to wait entered the queue behind a frame submitted
\* later, and both are on the transport in that order
C19_Witness ==
    \E i, j \in 1..Len(socket_out) :
        /\ i < j
        /\ socket_out[i].id > socket_out[j].id
        /\ hist.submitted[socket_out[j].id].full

(***************************************************************************)
(* Views of a connection: what the receive task has read and what it has   *)
(* passed to send_frame.                                                   *)
(***************************************************************************)
\* the frames read in read_settings or receive_coroutine_continuation
ReadInPhase(phase) ==
    { i \in 1..Len(hist.received) : hist.received[i].phase = phase }

\* a frame arrived whole: read_frame had a header and a body to parse
FrameArrived(o) == ~o.input.eof

\* the frame Frame::parse returned for a read
ParsedFrame(o) == Unwrap(o.ret.frame)

\* the read ended in Ok(frame)
ParsedOk(o) == ~o.panic /\ o.ret.ok

\* the frames passed to send_frame while the i-th read was handled
SubmittedFor(i) ==
    { k \in 1..Len(hist.submitted) : hist.submitted[k].cause = i }

\* the GOAWAY frames among them
GoAwaysFor(i) ==
    { k \in SubmittedFor(i) : hist.submitted[k].frame.type = "GoAway" }

(***************************************************************************)
(* C13: when the first frame after the preface is not a SETTINGS frame     *)
(* without ACK (another type, or SETTINGS with ACK), the endpoint submits  *)
(* a GOAWAY with error code ProtocolError and dispatches nothing.          *)
(***************************************************************************)
C13_FirstFrameMustBeSettings ==
    \A i \in ReadInPhase("read_settings") :
        ( /\ FrameArrived(hist.received[i])
          /\ ~ ( /\ hist.received[i].input.header.frame_type = 4
                 /\ hist.received[i].input.header.flags % 2 = 0 ) )
        => /\ \E k \in GoAwaysFor(i) :
                 hist.submitted[k].frame.error_code = "ProtocolError"
           /\ hist.dispatched = << >>

\* the read delivered a SETTINGS frame
SettingsRead(o) ==
    FrameArrived(o) /\ ParsedOk(o) /\ ParsedFrame(o).type = "Settings"

(***************************************************************************)
(* C14: for every SETTINGS frame received without the ACK flag, in the     *)
(* handshake and afterwards, the endpoint submits exactly one SETTINGS     *)
(* frame with ACK and no values; for a SETTINGS frame received with the    *)
(* ACK flag it submits none.                                               *)
(***************************************************************************)
C14_OneAckPerSettings ==
    \A i \in 1..Len(hist.received) :
        ( /\ hist.received[i].phase \in {"read_settings", "continuation"}
          /\ SettingsRead(hist.received[i]) )
        => /\ \A k \in SubmittedFor(i) :
                 hist.submitted[k].frame = Frame_Settings(TRUE, << >>)
           /\ Cardinality(SubmittedFor(i)) =
                 IF ParsedFrame(hist.received[i]).ack THEN 0 ELSE 1

\* the read ended in a connection-level error
ConnectionError(o) ==
    ~o.panic /\ ~o.ret.ok /\ o.ret.level = "ConnectionLevel"

(***************************************************************************)
(* C16: when reading or parsing a frame fails with a connection-level      *)
(* error of code C, the GOAWAY the endpoint submits carries the code C and *)
(* the receive task reads and dispatches no further frame.                 *)
(***************************************************************************)
C16_GoAwayCarriesErrorCode ==
    \A i \in ReadInPhase("continuation") :
        ConnectionError(hist.received[i])
        => /\ GoAwaysFor(i) /= {}
           /\ \A k \in GoAwaysFor(i) :
                 hist.submitted[k].frame.error_code = hist.received[i].ret.code
           /\ i = Len(hist.received)
           /\ recv = "stopped"

\* the read delivered a HEADERS or PRIORITY frame
StreamFrameRead(o) ==
    /\ o.phase = "continuation"
    /\ FrameArrived(o)
    /\ ParsedOk(o)
    /\ ParsedFrame(o).type \in {"Headers", "Priority"}

\* the stream of the last HEADERS or PRIORITY frame among the first n reads
RECURSIVE LastStreamProcessed(_)
LastStreamProcessed(n) ==
    IF n = 0 THEN 0
    ELSE IF StreamFrameRead(hist.received[n])
    THEN hist.received[n].input.header.stream_id
    ELSE LastStreamProcessed(n - 1)

(***************************************************************************)
(* C17: every GOAWAY the endpoint submits carries as last_stream_id the    *)
(* stream id of the most recent HEADERS or PRIORITY frame it processed     *)
(* before, and 0 only when there was none.                                 *)
(***************************************************************************)
C17_GoAwayCarriesLastStream ==
    \A k \in 1..Len(hist.submitted) :
        hist.submitted[k].frame.type = "GoAway"
        => hist.submitted[k].frame.last_stream_id =
               LastStreamProcessed(hist.submitted[k].cause)

\* where a submitted frame stands on the transport, 0 when it is not there
PositionOnTransport(id) ==
    IF \E i \in 1..Len(socket_out) : socket_out[i].id = id
    THEN CHOOSE i \in 1..Len(socket_out) : socket_out[i].id = id
    ELSE 0

(***************************************************************************)
(* C20: the SETTINGS-ACK for a received SETTINGS frame reaches the         *)
(* transport before any frame passed to send_frame after it, also when the *)
(* ACK found the queue full and had to try again.                          *)
(***************************************************************************)
C20_AckBeforeLaterFrames ==
    \A a, b \in 1..Len(hist.submitted) :
        ( /\ hist.submitted[a].frame = Frame_Settings(TRUE, << >>)
          /\ a < b
          /\ PositionOnTransport(b) > 0 )
        => /\ PositionOnTransport(a) > 0
           /\ PositionOnTransport(a) < PositionOnTransport(b)

\* the read delivered a GOAWAY frame after the handshake
GoAwayRead(o) ==
    /\ o.phase = "continuation"
    /\ FrameArrived(o)
    /\ ParsedOk(o)
    /\ ParsedFrame(o).type = "GoAway"

\* the GOAWAY frames with code NoError on the transport
NoErrorGoAwaysWritten ==
    { i \in 1..Len(socket_out) :
         /\ socket_out[i].frame.type = "GoAway"
         /\ socket_out[i].frame.error_code = "NoError" }

(***************************************************************************)
(* C15: once a GOAWAY was received, the endpoint writes exactly one GOAWAY *)
(* with code NoError to the transport, whatever the peer sends afterwards: *)
(* never more than one, and one when the send task has ended without a     *)
(* failed write.                                                           *)
(***************************************************************************)
C15_OneGoAwayBack ==
    (\E i \in 1..Len(hist.received) : GoAwayRead(hist.received[i]))
    => /\ Cardinality(NoErrorGoAwaysWritten) <= 1
       /\ (send.state = "stopped" /\ ~hist.write_failed)
             => Cardinality(NoErrorGoAwaysWritten) = 1

(***************************************************************************)
(* The connection under fair scheduling: the tokio runtime runs the send   *)
(* task whenever the channel holds a frame, a write_all ends, and the      *)
(* timer of every waiting frame fires again and again.                     *)
(***************************************************************************)
MaxSubmitted == MaxReceived + 1

SpecConnFair ==
    /\ SpecConn
    /\ WF_vars(Dequeue)
    /\ WF_vars(\E ok \in BOOLEAN : WriteAll(ok))
    /\ \A id \in 1..MaxSubmitted :
          WF_vars(\E item \in delayed : item.id = id /\ TrySendAgain(item))

\* the connection is open: to_close is not set and the send task runs
ConnectionOpen == ~conn.to_close /\ SendOpen

\* how often a submitted frame occurs in a sequence of queue items
Occurrences(seq, id) ==
    Cardinality({ i \in 1..Len(seq) : seq[i].id = id })

\* the places a submitted frame is at: behind its timer, in the channel, in
\* the hands of the send task, on the transport
Copies(id) ==
    Cardinality({ item \in delayed : item.id = id })
    + Occurrences(sender, id)
    + (IF send.state = "writing" /\ send.item.id = id THEN 1 ELSE 0)
    + Occurrences(socket_out, id)

C18_NeverDroppedNeverDuplicated ==
    /\ \A id \in 1..Len(hist.submitted) :
          /\ Cardinality({ i \in 1..Len(hist.enqueued) :
                              hist.enqueued[i] = id }) <= 1
          /\ Occurrences(socket_out, id) <= 1
          /\ Copies(id) <= 1
          /\ ConnectionOpen => Copies(id) = 1

(***************************************************************************)
(* C18: a frame passed to send_frame while the queue is full is never      *)
(* dropped and never duplicated: it enters the queue at most once, and     *)
(* while the connection is open it is at exactly one place; under fair     *)
(* scheduling of the timer and the send task it is eventually written to   *)
(* the transport unless the connection closes.                             *)
(***************************************************************************)
C18_FullQueueFrameIsWritten ==
    /\ []C18_NeverDroppedNeverDuplicated
    /\ \A id \in 1..MaxSubmitted :
          (id <= Len(hist.submitted) /\ hist.submitted[id].full)
          ~> (Occurrences(socket_out, id) = 1 \/ ~ConnectionOpen)

\* a frame that found the queue full is on the transport and the
\* connection is still open
C18_Witness ==
    \E i \in 1..Len(socket_out) :
        /\ hist.submitted[socket_out[i].id].full
        /\ ConnectionOpen

(***************************************************************************)
(* C21: once to_close is set (by async_disconnect, by the send task taking *)
(* a GOAWAY, or by a failed write) no step dispatches a frame to the user  *)
(* callback and no frame still waiting in the queue is handed to           *)
(* write_all.                                                              *)
(***************************************************************************)
C21_NoIterationAfterClose ==
    [][ conn.to_close =>
           /\ hist'.dispatched = hist.dispatched
           /\ send.state /= "writing" => send'.state /= "writing" ]_vars

\* Frame::parse returned Ok(frame) for the read
ParsedToFrame(o) ==
    /\ o.phase \in {"read_settings", "continuation"}
    /\ FrameArrived(o)
    /\ DOMAIN o.ret /= {}
    /\ o.ret.ok

\* the frames Frame::parse returned for the first n reads, in wire order
RECURSIVE FramesParsed(_)
FramesParsed(n) ==
    IF n = 0 THEN << >>
    ELSE IF ParsedToFrame(hist.received[n])
    THEN Append(FramesParsed(n - 1), ParsedFrame(hist.received[n]))
    ELSE FramesParsed(n - 1)

(***************************************************************************)
(* C22: every frame parsed from the transport, SETTINGS and GOAWAY         *)
(* included, is passed to the user callback exactly once and in wire       *)
(* order, and when a SETTINGS or GOAWAY frame has been passed the ACK or   *)
(* the GOAWAY answer has been submitted.                                   *)
(***************************************************************************)
C22_DispatchedInWireOrder ==
    /\ hist.dispatched = FramesParsed(Len(hist.received))
    /\ \A i \in 1..Len(hist.received) :
          ( /\ ParsedToFrame(hist.received[i])
            /\ \/ /\ ParsedFrame(hist.received[i]).type = "Settings"
                  /\ ~ParsedFrame(hist.received[i]).ack
               \/ ParsedFrame(hist.received[i]).type = "GoAway" )
          => Cardinality(SubmittedFor(i)) = 1

\* the (identifier, value) pairs a SETTINGS body carries, as they stand on
\* the wire
PairsOnWire(body) ==
    [i \in 1..(Len(body) \div 6) |->
        [id |-> 256 * body[6 * i - 5] + body[6 * i - 4],
         value |-> parse_u32(SubSeq(body, 6 * i - 3, 6 * i))]]

\* the record a SETTINGS body asks for: each key listed takes the value of
\* its last pair, the others stay
SettingsAsked(previous, body) ==
    [key \in DOMAIN previous |->
        LET hits == { i \in 1..(Len(body) \div 6) :
                         PairsOnWire(body)[i].id = SettingKey_to_h2_id(key) }
        IN IF hits = {} THEN previous[key]
           ELSE PairsOnWire(body)[SetMax(hits)].value]

\* the read delivered a SETTINGS frame without ACK
SettingsWithoutAckRead(o) ==
    /\ o.phase \in {"read_settings", "continuation"}
    /\ SettingsRead(o)
    /\ o.input.header.flags % 2 = 0

(***************************************************************************)
(* C23: receiving a SETTINGS frame without ACK sets, in the peer settings  *)
(* record, exactly the keys whose identifiers 1..6 appear in the frame to  *)
(* the value of their last occurrence, leaves the other keys as they were, *)
(* ignores the other identifiers, and leaves the local settings record     *)
(* unchanged.                                                              *)
(***************************************************************************)
C23_SettingsChangeListedKeysOnly ==
    [][ ( /\ Len(hist'.received) = Len(hist.received) + 1
          /\ SettingsWithoutAckRead(hist'.received[Len(hist'.received)]) )
        => /\ conn'.remote_h2_settings =
                 SettingsAsked(conn.remote_h2_settings,
                     hist'.received[Len(hist'.received)].input.body)
           /\ conn'.my_h2_settings = conn.my_h2_settings ]_vars

\* a SETTINGS frame read after the handshake listed MaxConcurrentStreams
\* twice, with 7 and then 9, and the peer record holds 9, and
\* InitialWindowSize still holds what the first frame set
C23_Witness ==
    /\ Len(hist.received) = 2
    /\ SettingsWithoutAckRead(hist.received[2])
    /\ hist.received[1].input.body = << 0, 4, 0, 0, 0, 7, 1, 7, 0, 0, 0, 9 >>
    /\ hist.received[2].input.body = << 0, 3, 0, 0, 0, 7, 0, 3, 0, 0, 0, 9 >>
    /\ conn.remote_h2_settings["MaxConcurrentStreams"] = 9
    /\ conn.remote_h2_settings["InitialWindowSize"] = 7
    /\ conn.remote_h2_settings["MaxFrameSize"] = Settings_new["MaxFrameSize"]

(***************************************************************************)
(* C24: FrameHeader::parse clears the reserved top bit of the stream id,   *)
(* so the parsed stream_id is below 2^31 (not negative as a 32-bit two's   *)
(* complement number), and FrameHeader::serialize writes the stream id     *)
(* with the top bit cleared.                                               *)
(***************************************************************************)
C24_ReservedBitCleared ==
    /\ last.op = "FrameHeader::parse" =>
          /\ last.ret /= None
          /\ Unwrap(last.ret).stream_id >= 0
          /\ Unwrap(last.ret).stream_id =
                 be_uint(<< last.arg[6] % 128, last.arg[7], last.arg[8],
                            last.arg[9] >>)
    /\ last.op = "FrameHeader::serialize" => last.ret[6] < 128

\* the octets of a HEADERS body that follow the pad-length octet and the
\* priority group; negative when the body is too short to hold them
OctetsAfterFixedFields(frame) ==
    Len(frame.body) - 1
    - (IF BitSet(frame.header.flags, 5) THEN 5 ELSE 0)

(***************************************************************************)
(* C26: parsing a HEADERS frame on stream 0 returns a connection-level     *)
(* ProtocolError, and so does parsing a HEADERS frame with PADDED set      *)
(* whose pad length exceeds the octets left after the pad-length octet and *)
(* the priority group, also when the body is empty or shorter than the     *)
(* priority group.                                                         *)
(***************************************************************************)
C26_HeadersFrameErrors ==
    ( /\ last.op = "ReceivedHeadersFrame::parse"
      /\ \/ last.arg.header.stream_id = 0
         \/ /\ BitSet(last.arg.header.flags, 3)
            /\ \/ last.arg.body = << >>
               \/ last.arg.body[1] > OctetsAfterFixedFields(last.arg) )
    => /\ ~panicked
       /\ ~last.ret.ok
       /\ last.ret.level = "ConnectionLevel"
       /\ last.ret.code = "ProtocolError"

\* the frame type and the flags of a frame on the transport
WireType(w) == w.header[4]
WireFlags(w) == w.header[5]

(***************************************************************************)
(* C25: parsing a SETTINGS frame that has the ACK flag set and a body that *)
(* is not empty fails with a connection-level FrameSizeError.              *)
(***************************************************************************)
C25_AckWithBodyIsFrameSizeError ==
    ( /\ last.op = "Frame::parse"
      /\ WireType(last.arg) = 4
      /\ WireFlags(last.arg) % 2 = 1
      /\ last.arg.body /= << >> )
    => /\ ~panicked
       /\ ~last.ret.ok
       /\ last.ret.level = "ConnectionLevel"
       /\ last.ret.code = "FrameSizeError"

\* the error code of a GOAWAY body as a number
WireErrorCode(w) == be_uint(SubSeq(w.body, 5, 8))

(***************************************************************************)
(* C27: parsing a GOAWAY frame on stream 0 whose error code is none of the *)
(* 14 known codes (wire value 14 or more) succeeds and the frame carries   *)
(* the code as its number; the parse neither fails nor aborts.             *)
(***************************************************************************)
C27_UnknownErrorCodeKept ==
    ( /\ last.op = "Frame::parse"
      /\ WireType(last.arg) = 7
      /\ SubSeq(last.arg.header, 6, 9) = << 0, 0, 0, 0 >>
      /\ Len(last.arg.body) >= 8
      /\ WireErrorCode(last.arg) >= 14 )
    => /\ ~panicked
       /\ last.ret.ok
       /\ Unwrap(last.ret.frame).type = "GoAway"
       /\ Unwrap(last.ret.frame).error_code = WireErrorCode(last.arg)

(***************************************************************************)
(* C28: for every 9-octet header and every body of the announced length,   *)
(* also a body shorter than the fixed fields of the frame type, Frame::    *)
(* parse returns a Frame or an Error; it never aborts.                     *)
(***************************************************************************)
C28_FrameParseNeverAborts ==
    last.op = "Frame::parse" =>
       /\ ~panicked
       /\ last.ret /= None

(***************************************************************************)
(* C29: for every SETTINGS frame f, with or without ACK and with any list  *)
(* of pairs of known keys, repeats included, parsing the header from the   *)
(* first 9 octets of serialize(f) and the body from the rest yields a      *)
(* frame equal to f, the pairs in the same order.                          *)
(***************************************************************************)
C29_SettingsSerializeParse ==
    last.op = "settingsframe_serde" =>
       /\ ~panicked
       /\ last.ret.ok
       /\ Unwrap(last.ret.frame) = last.arg
       /\ Len(last.value) = 9 + 6 * Len(last.arg.values)

\* a frame with ACK that lists MaxHeaderListSize = u32::max_value() and
\* then HeaderTableSize twice came back as it was
C29_Witness ==
    /\ last.op = "settingsframe_serde"
    /\ last.arg = Frame_Settings(TRUE,
                      << << "MaxHeaderListSize", -1 >>,
                         << "HeaderTableSize", 305419896 >> >>)
    /\ last.value = << 0, 0, 12, 4, 1, 0, 0, 0, 0,
                       0, 6, 255, 255, 255, 255, 0, 1, 18, 52, 86, 120 >>
    /\ last.ret.ok
    /\ Unwrap(last.ret.frame).values[2] = << "HeaderTableSize", 305419896 >>

(***************************************************************************)
(* hpack/int.rs: parse_uint and serialize_uint on the whole range of u64.  *)
(* A u64 is written as its 7-bit groups, least significant first, without  *)
(* leading zero groups: 64 bits are nine groups and one more bit.          *)
(***************************************************************************)
\* the number of 7-bit groups that hold 64 bits
U64Groups == 10

\* a small number as a u64
RECURSIVE u64_from(_)
u64_from(n) ==
    IF n = 0 THEN << >>
    ELSE << n % 128 >> \o u64_from(n \div 128)

\* the groups without their zero groups at the most significant end
RECURSIVE u64_trim(_)
u64_trim(d) ==
    IF d = << >> THEN d
    ELSE IF d[Len(d)] = 0 THEN u64_trim(SubSeq(d, 1, Len(d) - 1))
    ELSE d

\* v < m as u64, for an m below 2^14
u64_lt(v, m) ==
    /\ Len(v) <= 2
    /\ uint_from_buf(v) < m

\* v -= m as u64, where v >= m
RECURSIVE u64_sub_groups(_, _)
u64_sub_groups(v, m) ==
    IF v = << >> THEN << >>
    ELSE LET x == Head(v) - (m % 128)
             borrow == IF x < 0 THEN 1 ELSE 0
         IN << x + 128 * borrow >>
            \o u64_sub_groups(Tail(v), (m \div 128) + borrow)

u64_sub(v, m) == u64_trim(u64_sub_groups(v, m))

\* the groups of v + m, not yet cut to 64 bits
RECURSIVE u64_add_groups(_, _)
u64_add_groups(v, m) ==
    IF m = 0 THEN v
    ELSE LET x == (IF v = << >> THEN 0 ELSE Head(v)) + (m % 128)
         IN << x % 128 >>
            \o u64_add_groups(IF v = << >> THEN v ELSE Tail(v),
                              (m \div 128) + (x \div 128))

\* the low 64 bits of the groups
u64_wrap(d) ==
    u64_trim([i \in 1..(IF Len(d) < U64Groups THEN Len(d) ELSE U64Groups) |->
                 IF i = U64Groups THEN d[i] % 2 ELSE d[i]])

\* the groups stand for a number above u64::max_value()
u64_overflows(d) ==
    u64_wrap(d) /= u64_trim(d)

\* the octets of the while loop and of the last push of int::serialize_uint:
\* v & 0x7F and v >>= 7 take the groups one by one
int_serialize_groups(v) ==
    IF v = << >> THEN << 0 >>
    ELSE [i \in 1..Len(v) |-> IF i < Len(v) THEN 128 + v[i] ELSE v[i]]

\* int::serialize_uint
int_serialize_uint(v, prefix_bits, first_byte_flags) ==
    LET prefix_mask == (2 ^ prefix_bits) - 1
        flags == first_byte_flags - (first_byte_flags % (prefix_mask + 1))
    IN IF u64_lt(v, prefix_mask) THEN << flags + uint_from_buf(v) >>
       ELSE << flags + prefix_mask >>
            \o int_serialize_groups(u64_sub(v, prefix_mask))

\* int::parse_uint whose result lacks res += mask
int_parse_uint_without_mask(input, prefix_bits, overflow_checks) ==
    LET mask == (2 ^ prefix_bits) - 1
        total(groups) ==
            IF ~groups.ok THEN groups
            ELSE Ok(groups.rem, u64_wrap(groups.value))
    IN IF input = << >> THEN Err(ErrShortage)
       ELSE IF LowBits(Head(input), prefix_bits) < mask
       THEN Ok(Tail(input), u64_from(LowBits(Head(input), prefix_bits)))
       ELSE total(parse_uint_loop(Tail(input), << >>))

\* int::parse_uint.  res <<= 7 drops the bits above the 64th; res += mask
\* above u64::max_value() panics where overflow checks are compiled in and
\* wraps where they are not
int_parse_uint(input, prefix_bits, overflow_checks) ==
    LET mask == (2 ^ prefix_bits) - 1
        sum(res) == u64_add_groups(res, mask)
        total(groups) ==
            IF ~groups.ok THEN groups
            ELSE IF u64_overflows(sum(u64_wrap(groups.value)))
                 THEN IF overflow_checks THEN Panic
                      ELSE Ok(groups.rem, u64_wrap(sum(u64_wrap(groups.value))))
            ELSE Ok(groups.rem, u64_trim(sum(u64_wrap(groups.value))))
    IN IF input = << >> THEN Err(ErrShortage)
       ELSE IF LowBits(Head(input), prefix_bits) < mask
       THEN Ok(Tail(input), u64_from(LowBits(Head(input), prefix_bits)))
       ELSE total(parse_uint_loop(Tail(input), << >>))

\* the largest of the values taken one by one from 0
MaxSmallUint == 300

\* u64::max_value()
U64Max == Rep(127, U64Groups - 1) \o << 1 >>

\* the values to serialize: the small ones, the powers of 128 and their
\* neighbours, and the top of the range
UintValues ==
    { u64_from(n) : n \in 0..MaxSmallUint }
    \cup { Rep(0, k) \o << 1 >> : k \in 1..(U64Groups - 1) }
    \cup { Rep(127, k) : k \in 2..(U64Groups - 1) }
    \cup { Rep(127, k) \o << 1 >> : k \in 2..(U64Groups - 1) }
    \cup { u64_sub(U64Max, m) : m \in 0..MaxSmallUint }

\* the flag octets handed to serialize_uint
FirstByteFlags == { 0, 128, 160, 255 }

\* raw octets handed to parse_uint
RawUintOctets ==
    { << >>, << 31 >>, << 255 >>, << 255, 128 >>,
      << 255 >> \o Rep(255, U64Groups - 1) \o << 1 >>,
      << 255 >> \o Rep(255, U64Groups - 1) \o << 127 >>,
      << 255 >> \o Rep(255, U64Groups) \o << 1 >>,
      << 255 >> \o Rep(255, U64Groups + 1) \o << 1 >>,
      << 255 >> \o Rep(255, U64Groups + 1),
      << 255 >> \o Rep(255, U64Groups),
      << 31, 154 >>, << 31, 154, 10 >>,
      << 255, 0, 7 >> }

InitInt == InitFrames

\* serialize_uint(&mut buf, v, prefix_bits, flags) and then
\* parse_uint(buf.as_slice(), prefix_bits)
SerializeParseUint(v, prefix_bits, first_byte_flags, overflow_checks) ==
    /\ \E buf \in {int_serialize_uint(v, prefix_bits, first_byte_flags)} :
       \E r \in {int_parse_uint(buf, prefix_bits, overflow_checks)} :
          /\ last' = Call("serialize_parse_uint", << prefix_bits >>, buf,
                          v, r)
          /\ panicked' = r.panic
    /\ UNCHANGED << dyntbl, hashKey, inserted, resized, codecVars, connVars >>

\* parse_uint(input, prefix_bits)
ParseUint(input, prefix_bits, overflow_checks) ==
    /\ \E r \in {int_parse_uint(input, prefix_bits, overflow_checks)} :
          /\ last' = Call("parse_uint", << prefix_bits >>, input,
                          overflow_checks, r)
          /\ panicked' = r.panic
    /\ UNCHANGED << dyntbl, hashKey, inserted, resized, codecVars, connVars >>

\* one call in a run
NextInt ==
    \/ /\ last.op = "none"
       /\ \E v \in UintValues, prefix_bits \in 1..8,
             first_byte_flags \in FirstByteFlags,
             overflow_checks \in BOOLEAN :
             SerializeParseUint(v, prefix_bits, first_byte_flags,
                                overflow_checks)
    \/ /\ last.op = "none"
       /\ \E input \in RawUintOctets, prefix_bits \in 1..8,
             overflow_checks \in BOOLEAN :
             ParseUint(input, prefix_bits, overflow_checks)

SpecInt == InitInt /\ [][NextInt]_vars

\* C30: for every prefix width in 1..8, every flag octet and every u64 v,
\* parse_uint gives back v and an empty remainder from the octets that
\* serialize_uint wrote for v
C30_UintSerializeParse ==
    last.op = "serialize_parse_uint" =>
        /\ last.ret.ok
        /\ last.ret.rem = << >>
        /\ last.ret.value = last.arg

\* u64::max_value() with a prefix of one bit came back from its eleven octets
C30_Witness ==
    /\ last.op = "serialize_parse_uint"
    /\ last.arg = U64Max
    /\ last.name = << 1 >>
    /\ last.value = << 129, 254 >> \o Rep(255, 8) \o << 1 >>
    /\ last.ret.ok
    /\ last.ret.value = U64Max

\* the octets at the head of input that carry the continuation bit
RECURSIVE ContinuationOctets(_)
ContinuationOctets(input) ==
    IF input = << >> \/ Head(input) < 128 THEN 0
    ELSE 1 + ContinuationOctets(Tail(input))

\* parse_uint was called on input whose prefix is all ones
AllOnesPrefixParsed ==
    /\ last.op = "parse_uint"
    /\ last.value /= << >>
    /\ LowBits(Head(last.value), last.name[1]) = (2 ^ last.name[1]) - 1

\* C31: on an all-ones prefix followed by more than 10 continuation octets
\* parse_uint returns "corrupted data."; on input that ends before an octet
\* without the continuation bit it returns the shortage error; it aborts on
\* neither
C31_TooLongOrTruncatedIsAnError ==
    AllOnesPrefixParsed =>
        LET rest == Tail(last.value)
        IN /\ ContinuationOctets(rest) > 10
              => last.ret = Err(ErrCorrupted)
           /\ ContinuationOctets(rest) <= 10
              /\ ContinuationOctets(rest) = Len(rest)
              => last.ret = Err(ErrShortage)

(***************************************************************************)
(* hpack/huffman.rs: encode and then decode, one call in a run.            *)
(***************************************************************************)
\* the longest of the strings over HuffmanAlphabet
MaxHuffmanLen == 3

\* octets with codes of 5, 5, 8, 13, 26, 28 and 30 bits
HuffmanAlphabet == { 48, 97, 38, 0, 255, 22, 10 }

RECURSIVE StringsUpTo(_, _)
StringsUpTo(alphabet, n) ==
    IF n = 0 THEN { << >> }
    ELSE LET shorter == StringsUpTo(alphabet, n - 1)
         IN shorter \cup { << c >> \o s : c \in alphabet,
                             s \in { t \in shorter : Len(t) = n - 1 } }

\* the strings to encode: every octet by itself and the strings over
\* HuffmanAlphabet
HuffmanStrings ==
    { << c >> : c \in 0..255 } \cup StringsUpTo(HuffmanAlphabet, MaxHuffmanLen)

\* huffman::encode(&mut out, s) and then huffman::decode(out)
EncodeDecodeHuffman(s) ==
    /\ \E out \in {huffman_encode(s)} :
       \E r \in {huffman_decode(out)} :
          /\ last' = Call("huffman_encode_decode", << >>, out, s, r)
          /\ panicked' = r.panic
    /\ UNCHANGED << dyntbl, hashKey, inserted, resized, codecVars, connVars >>

\* one call in a run
NextHuffman ==
    /\ last.op = "none"
    /\ \E s \in HuffmanStrings : EncodeDecodeHuffman(s)

SpecHuffman == InitFrames /\ [][NextHuffman]_vars

\* the bits that encode wrote after the last code
HuffmanPadding ==
    SubSeq(Bits(last.value), Len(huffman_code_bits(last.arg)) + 1,
           8 * Len(last.value))

\* C32: decode gives back every string that encode was given, and encode
\* fills its last octet with at most 7 bits, all ones
C32_HuffmanEncodeDecode ==
    last.op = "huffman_encode_decode" =>
        /\ last.ret = Ok(<< >>, last.arg)
        /\ Len(HuffmanPadding) <= 7
        /\ \A i \in 1..Len(HuffmanPadding) : HuffmanPadding[i] = 1

\* three octets whose codes take 13, 26 and 30 bits came back from 9 octets
\* that end with 3 bits of padding
C32_Witness ==
    /\ last.op = "huffman_encode_decode"
    /\ last.arg = << 0, 255, 10 >>
    /\ Len(last.value) = 9
    /\ HuffmanPadding = << 1, 1, 1 >>
    /\ last.ret = Ok(<< >>, << 0, 255, 10 >>)

(***************************************************************************)
(* hpack/static_table.rs: the lookups of Seeker, one call in a run.        *)
(***************************************************************************)
\* b"NOT_EXIST" and b"WHATEVER"
NotExist == << 78, 79, 84, 95, 69, 88, 73, 83, 84 >>
Whatever == << 87, 72, 65, 84, 69, 86, 69, 82 >>

\* the indices of the static table
StaticIndices == 1..(RAW_TABLE_len - 1)

\* the names to look up: those of the table and one that is not in it
StaticNames == { RAW_TABLE[i + 1].name : i \in StaticIndices } \cup { NotExist }

\* the values to look up: those of the table and two that are not in it
StaticValues ==
    { Unwrap(RAW_TABLE[i + 1].value) :
        i \in { j \in StaticIndices : RAW_TABLE[j + 1].value /= None } }
    \cup { NotExist, Whatever }

\* Seeker::new().seek_with_name(name)
SeekStaticName(name) ==
    /\ last' = Call("Seeker::seek_with_name", name, << >>, None,
                    Seeker_seek_with_name(name))
    /\ UNCHANGED << dyntbl, hashKey, panicked, inserted, resized, codecVars,
                    connVars >>

\* Seeker::new().seek_with_name_value(name, value)
SeekStaticNameValue(name, value) ==
    /\ last' = Call("Seeker::seek_with_name_value", name, value, None,
                    Seeker_seek_with_name_value(name, value))
    /\ UNCHANGED << dyntbl, hashKey, panicked, inserted, resized, codecVars,
                    connVars >>

\* one call in a run
NextStatic ==
    \/ /\ last.op = "none"
       /\ \E name \in StaticNames : SeekStaticName(name)
    \/ /\ last.op = "none"
       /\ \E name \in StaticNames, value \in StaticValues :
             SeekStaticNameValue(name, value)

SpecStatic == InitFrames /\ [][NextStatic]_vars

\* the indices of the static table that carry the name looked up
StaticWithName ==
    { i \in StaticIndices : RAW_TABLE[i + 1].name = last.name }

\* C33: seek_with_name_value(e.name, e.value) is the index of e for every
\* entry e with a value, seek_with_name(e.name) is the index of e for every
\* entry without; a name that is not in the table, and a name of the table
\* with a value that is not, give None
C33_StaticSeekFindsEveryEntry ==
    /\ last.op = "Seeker::seek_with_name_value" =>
          /\ \A i \in StaticIndices :
                RAW_TABLE[i + 1] = SItem(last.name, Some(last.value))
                => last.ret = Some(i)
          /\ (\A i \in StaticWithName :
                RAW_TABLE[i + 1].value /= Some(last.value))
             => last.ret = None
    /\ last.op = "Seeker::seek_with_name" =>
          /\ \A i \in StaticIndices :
                RAW_TABLE[i + 1] = SItem(last.name, None)
                => last.ret = Some(i)
          /\ StaticWithName = {} => last.ret = None

\* ":status" with "404" was found at 13
C33_Witness ==
    /\ last.op = "Seeker::seek_with_name_value"
    /\ last.name = << 58, 115, 116, 97, 116, 117, 115 >>
    /\ last.value = << 52, 48, 52 >>
    /\ RAW_TABLE[14] = SItem(last.name, Some(last.value))
    /\ last.ret = Some(13)

\* C34: for a name that several entries of the static table carry,
\* seek_with_name returns the lowest of their indices
C34_StaticSeekLowestIndex ==
    last.op = "Seeker::seek_with_name" /\ Cardinality(StaticWithName) > 1 =>
        /\ last.ret /= None
        /\ \A i \in StaticWithName : Unwrap(last.ret) <= i

\* the last call was a seek of the dynamic table
SeekCalled == last.op \in { "seek_with_name", "seek_with_name_value" }

\* the indices of the live entries that match the arguments of the seek
SeekMatches ==
    MatchingIndices(dyntbl, last.name, last.value,
                    last.op = "seek_with_name_value")

\* C35: in every table state a seek returns Some(i) only for an i below len()
\* whose entry has the name (and the value) asked for, and returns None,
\* without failing, when no live entry matches, also after entries of that
\* name were evicted
C35_SeekAnswersLiveEntriesOnly ==
    SeekCalled =>
        /\ last.ret /= None =>
              /\ Unwrap(last.ret) < DynamicTable_len(dyntbl)
              /\ Unwrap(last.ret) \in SeekMatches
        /\ SeekMatches = {} => ~panicked /\ last.ret = None

\* C36: a prepend of an entry whose size equals the limit is accepted in
\* every table state, empty or not: it returns, and the table then holds
\* that entry alone
C36_PrependOfLimitSizeAccepted ==
    (last.op = "prepend"
     /\ h2_size(last.name, last.value) = dyntbl.h2_limit_size) =>
        /\ ~panicked
        /\ last.ret /= None
        /\ LiveEntries(dyntbl) = << << last.name, last.value >> >>

\* C37: the 24-bit length at the head of every frame the endpoint serializes
\* is the number of octets that follow the 9 octets of the header
C37_LengthFieldIsBodyLength ==
    last.op = "Frame::serialize" =>
        be_uint(SubSeq(last.value, 1, 3)) = Len(last.value) - 9

\* C39: every send_frame call stops rescheduling itself in the end: from
\* some point on no frame waits behind a retry timer, because each was put
\* into the queue or given up once the receiving end of the queue was gone
C39_SendFrameStopsRescheduling == <>[](delayed = {})

\* the places of socket_out that hold a GOAWAY
GoAwaysWritten ==
    { k \in 1..Len(socket_out) : socket_out[k].frame.type = "GoAway" }

\* the place of a submitted frame in hist.enqueued, 0 if it is not there
EnqueuedAt(id) ==
    IF \E i \in 1..Len(hist.enqueued) : hist.enqueued[i] = id
    THEN CHOOSE i \in 1..Len(hist.enqueued) : hist.enqueued[i] = id
    ELSE 0

\* C38: a GOAWAY is the last frame written: the frames that entered the
\* queue before it are on the transport before it, to_close is set from the
\* moment the send task has taken the GOAWAY out of the queue, and nothing
\* is written behind it
C38_GoAwayIsLastFrameWritten ==
    /\ (send.state = "writing" /\ send.item.frame.type = "GoAway")
       => conn.to_close
    /\ \A k \in GoAwaysWritten :
          /\ k = Len(socket_out)
          /\ conn.to_close
          /\ send.state = "stopped"
          /\ \A i \in 1..(EnqueuedAt(socket_out[k].id) - 1) :
                \E j \in 1..(k - 1) : socket_out[j].id = hist.enqueued[i]

\* a GOAWAY was written behind two earlier frames while a later frame was
\* left in the queue or behind its timer
C38_Witness ==
    /\ Len(socket_out) = 3
    /\ socket_out[3].frame.type = "GoAway"
    /\ send.state = "stopped"
    /\ sender /= << >> \/ delayed /= {}

(***************************************************************************)
(* The mutexes of Connection (my_h2_settings, remote_h2_settings,          *)
(* header_decoder) in the receive task.  What runs between two suspension  *)
(* points is a list of steps: a lock() whose guard a let binds, the end of *)
(* the block that drops the guard, a change of the settings, a send_frame  *)
(* call, the user callback.  The callback runs on the same thread and may  *)
(* call back into the connection.                                          *)
(***************************************************************************)
\* frames the receive task handles in a run
MaxHandled == 2

Lock(m) == [op |-> "lock", m |-> m]
Unlock(m) == [op |-> "unlock", m |-> m]
SetSettings(which, values) == [op |-> "set", which |-> which, values |-> values]
Send(frame) == [op |-> "send_frame", frame |-> frame]
Callback(frame) == [op |-> "callback", frame |-> frame]
Abort == [op |-> "panic"]

\* the arm of a SETTINGS frame in read_settings and in
\* receive_coroutine_continuation, its guard never dropped
SettingsArm_guard_kept(values) ==
    << Lock("remote_h2_settings"),
       SetSettings("remote_h2_settings", values),
       Send(Frame_Settings(TRUE, << >>)) >>

\* the arm of a SETTINGS frame in read_settings and in
\* receive_coroutine_continuation: the guard is bound inside the block of
\* the arm and dropped at its end, after send_frame
SettingsArm(values) ==
    << Lock("remote_h2_settings"),
       SetSettings("remote_h2_settings", values),
       Send(Frame_Settings(TRUE, << >>)),
       Unlock("remote_h2_settings") >>

\* Frame::parse: a HEADERS frame is parsed under the guard of
\* header_decoder, which is dropped on return and on unwinding
ParseSteps(input) ==
    IF ~input.eof /\ input.header.frame_type = 1
    THEN << Lock("header_decoder"), Unlock("header_decoder") >>
    ELSE << >>

\* the steps from the completion of read_frame to the next suspension
ReceiveSteps(phase, input, p, last_stream_id) ==
    ParseSteps(input) \o
    ( IF p.panic THEN << Abort >>
      ELSE IF ~p.ret.ok
      THEN IF phase = "read_settings" THEN << >>
           ELSE << Send(Frame_GoAway(last_stream_id, "ConnectError", << >>)) >>
      ELSE LET frame == Unwrap(p.ret.frame)
           IN IF phase = "read_settings"
              THEN IF frame.type /= "Settings" THEN << Abort >>
                   ELSE SettingsArm(frame.values) \o << Callback(frame) >>
              ELSE IF frame.type = "Settings" /\ ~frame.ack
              THEN SettingsArm(frame.values) \o << Callback(frame) >>
              ELSE IF frame.type = "GoAway"
              THEN << Send(Frame_GoAway(last_stream_id, "NoError", << >>)),
                      Callback(frame) >>
              ELSE << Callback(frame) >> )

\* what the user callback does with the connection it is handed
Callbacks ==
    { [op |-> "none"],
      [op |-> "update_sender_h2_settings",
       values |-> << << "EnablePush", 0 >> >>],
      [op |-> "update_remote_h2_settings",
       values |-> << << "MaxFrameSize", 32768 >> >>],
      [op |-> "send_frame", frame |-> Frame_GoAway(0, "NoError", << >>)] }

\* Connection::update_sender_h2_settings drops its guard before send_frame,
\* Connection::update_remote_h2_settings after it
CallbackSteps(cb) ==
    CASE cb.op = "update_sender_h2_settings" ->
            << Lock("my_h2_settings"),
               SetSettings("my_h2_settings", cb.values),
               Unlock("my_h2_settings"),
               Send(Frame_Settings(FALSE, cb.values)) >>
      [] cb.op = "update_remote_h2_settings" ->
            << Lock("remote_h2_settings"),
               SetSettings("remote_h2_settings", cb.values),
               Send(Frame_Settings(TRUE, << >>)),
               Unlock("remote_h2_settings") >>
      [] cb.op = "send_frame" -> << Send(cb.frame) >>
      [] OTHER -> << >>

\* send_frame(conn.sender.clone(), frame) on the state of a run
run_send_frame(st, frame) ==
    LET item == [id |-> Len(st.hist.submitted) + 1, frame |-> frame]
        r == send_frame(st.sender, st.delayed, SendOpen, item)
    IN [st EXCEPT
          !.sender = r.q,
          !.delayed = r.delayed,
          !.hist.submitted = Append(@, [frame |-> frame, full |-> ~r.queued,
                                        cause |-> Len(st.hist.received)]),
          !.hist.enqueued = IF r.queued THEN Append(@, item.id) ELSE @]

\* the steps run one after the other on one thread.  lock() on a mutex the
\* thread holds does not return
RECURSIVE run_steps(_, _, _)
run_steps(steps, cb, st) ==
    IF steps = << >> \/ st.relocked \/ st.panic THEN st
    ELSE LET s == Head(steps)
             rest == Tail(steps)
         IN CASE s.op = "lock" ->
                    IF s.m \in st.held
                    THEN [st EXCEPT !.relocked = TRUE]
                    ELSE run_steps(rest, cb,
                                   [st EXCEPT !.held = @ \cup {s.m}])
              [] s.op = "unlock" ->
                    run_steps(rest, cb, [st EXCEPT !.held = @ \ {s.m}])
              [] s.op = "set" ->
                    run_steps(rest, cb,
                        [st EXCEPT !.conn[s.which] =
                                       Settings_set_all(@, s.values)])
              [] s.op = "send_frame" ->
                    run_steps(rest, cb, run_send_frame(st, s.frame))
              [] s.op = "callback" ->
                    run_steps(CallbackSteps(cb) \o rest, cb,
                        [st EXCEPT !.at_callback = Append(@, st.held),
                                   !.hist.dispatched = Append(@, s.frame)])
              [] OTHER -> [st EXCEPT !.panic = TRUE]

InitLocks == InitConn

\* read_frame completes and the receive task runs up to its next
\* suspension: the read of the next frame, or its end
HandleFrame(input, cb, relock) ==
    /\ recv \in {"read_settings", "continuation"}
    /\ Len(hist.received) < MaxHandled
    /\ \E p \in {read_frame(dyntbl, hashKey, input)} :
       \E st \in {run_steps(
                     ReceiveSteps(recv, input, p,
                                  conn.last_received_stream_id),
                     cb,
                     [conn |-> conn, sender |-> sender, delayed |-> delayed,
                      hist |-> [hist EXCEPT !.received =
                                   Append(@, Outcome(recv, input, p))],
                      held |-> {}, at_callback |-> << >>,
                      relocked |-> FALSE, panic |-> FALSE])} :
          /\ dyntbl' = p.t
          /\ conn' = st.conn
          /\ sender' = st.sender
          /\ delayed' = st.delayed
          /\ hist' = st.hist
          /\ panicked' = (st.panic \/ (st.relocked /\ relock = "panic"))
          /\ recv' = IF st.relocked
                     THEN (IF relock = "panic" THEN "panicked"
                           ELSE "deadlocked")
                     ELSE IF st.panic THEN "panicked"
                     ELSE IF ~p.ret.ok \/ conn.to_close THEN "stopped"
                     ELSE "continuation"
          /\ last' = Call("receive", recv, st.at_callback,
                          [input |-> input, callback |-> cb],
                          [held |-> st.held, relocked |-> st.relocked])
    /\ UNCHANGED << hashKey, inserted, resized, codecVars, send, socket_out >>

NextLocks ==
    \/ \E result \in {"ok", "mismatch"} : ReadPreface(result)
    \/ \E input \in RecvInputs, cb \in Callbacks,
          relock \in {"deadlock", "panic"} : HandleFrame(input, cb, relock)

\* the receive task alone, with a callback that calls into the connection
SpecLocks == InitLocks /\ [][NextLocks]_vars

\* C40: the receive task calls the user callback with none of the mutexes
\* of the connection held, so a callback that calls
\* update_sender_h2_settings, update_remote_h2_settings or send_frame on the
\* connection gets every lock it asks for, and no mutex is held when the
\* task is suspended on its next read
C40_CallbackRunsWithoutLocks ==
    /\ recv /= "deadlocked"
    /\ last.op = "receive" =>
          /\ \A i \in 1..Len(last.value) : last.value[i] = {}
          /\ ~last.ret.relocked
          /\ last.ret.held = {}

\* a SETTINGS frame was applied under the guard of remote_h2_settings and
\* the callback then changed the same settings through
\* update_remote_h2_settings
C40_Witness ==
    /\ last.op = "receive"
    /\ last.name = "continuation"
    /\ last.arg.input = RecvSettings
    /\ last.arg.callback.op = "update_remote_h2_settings"
    /\ last.value = << {} >>
    /\ conn.remote_h2_settings["MaxConcurrentStreams"] = 7
    /\ conn.remote_h2_settings["MaxFrameSize"] = 32768
    /\ recv = "continuation"

=========================================================================
